---- MODULE Spec2Model ----
(***************************************************************************)
(* State-machine model of the dynamic-tools package                        *)
(* (src/skills/dynamic-tools): ToolLoader, CreationLog,                    *)
(* DynamicToolOrchestrator and ToolWatcher, over a shared model of the     *)
(* skills directory.                                                       *)
(***************************************************************************)
EXTENDS Integers, Sequences, FiniteSets, TLC

(***************************************************************************)
(* Bounds of the model.                                                    *)
(***************************************************************************)
MaxLog == 3
MaxEntries == 3
MaxChecks == 3
MaxRuns == 2
MaxCallbacks == 2
MaxTime == 2
MaxCalls == 3
MaxRetries == 3
MaxEntities == 2
MaxKeywords == 4
MaxBatch == 2
MaxList == 6
MaxFunctions == 5
MaxDependencies == 3
MaxCriteria == 2
MaxTexts == 3
MaxVotes == 3

None == "None"

Names == {"a", "b"}

\* the tool the loader is exercised on
LoaderNames == {"a"}

Min(a, b) == IF a <= b THEN a ELSE b
Range(s) == {s[i] : i \in 1..Len(s)}

(***************************************************************************)
(* The skills directory.  fs[n] is the directory skills_dir/n: whether it  *)
(* exists and the content and modification time of the three files the     *)
(* package reads.  A content of "" is an absent file.                      *)
(*   metadata.json : its content is the value of its "version" key         *)
(*   implementation.py : "ok" imports cleanly, "raise" raises on import    *)
(***************************************************************************)
NoFile == [c |-> "", mt |-> 0]
NoDir == [dir |-> FALSE, skill |-> NoFile, meta |-> NoFile, impl |-> NoFile]

SkillContents == {"doc"}
MetaContents == {"2.0"}
Versions == {"1.0", "2.0"}
ImplContents == {"ok", "raise"}

Exists(f) == f.c # ""

VARIABLES
  root_exists,    \* skills_dir.exists()
  fs,             \* [Names -> directory record]
  loaded_tools,   \* ToolLoader.loaded_tools : name -> heap reference (0 = no key)
  tool_versions,  \* ToolLoader.tool_versions : name -> sequence of heap references
  heap,           \* the ToolVersion objects created by successful loads
  load_log,       \* ToolLoader.load_log
  last,           \* the last ToolLoader call: arguments, result, state before
  cycle,          \* progress of a load / unload / re-load sequence
  log_file,       \* the persisted tool-creation-log.json
  log_data,       \* CreationLog.log_data of each CreationLog instance
  log_pc,         \* where each CreationLog instance is: closed, idle, saving
  pending,        \* the tool id an add_entry in progress is about to return
  returned,       \* the add_entry calls that returned: instance and tool id
  opened,         \* per instance: entries loaded at construction, tool_info added since
  orch_root,      \* DynamicToolOrchestrator.skills_dir: "skills", another directory, or None
  other_fs,       \* the tool directories under a tools root other than "skills"
  orch_pc,        \* where create_tool_on_demand is: none, idle, hotreload
  run,            \* the current or last create_tool_on_demand call: steps and result
  watch_on,       \* whether the ToolWatcher has been constructed
  watchers,       \* ToolWatcher.watchers, in insertion order: tool and its FileWatchers
  known_tools,    \* ToolWatcher.known_tools
  callbacks,      \* ToolWatcher.callbacks: event -> registered callbacks
  chk,            \* the last scan: directories present then and at the scan before,
                  \* the callbacks registered, those invoked, and check()'s result
  fwatch,         \* a FileWatcher on the SKILL.md of tool "a", used on its own
  hc,             \* its has_changed() calls: how many, the last value returned,
                  \* and the file's content at the calls before
  val,            \* the last validate_tool call: the tool directory and the result
  rty,            \* the last validate_with_retry call: max_retries, the tool
                  \* directory at each attempt, and the result
  det,            \* the last detect_gap call: the intent, the available tools,
                  \* the candidates found and the result
  cli,            \* the last run of cli.py: its arguments, what the operation
                  \* it ran reported, and the exit code
  tgen,           \* the last ToolGenerator.create_tool call made directly
  dreq,           \* the last _derive_requirements call: the intent and the result
  emb,            \* LocalEmbeddingService: its cache, and the last embed call
  cons,           \* the last ConsensusEngine.collect_votes call
  lemb            \* LocalEmbedder: its cache, and the last embed call

fsVars == <<root_exists, fs>>
loaderVars == <<loaded_tools, tool_versions, heap, load_log, last, cycle>>
logVars == <<log_file, log_data, log_pc, pending, returned, opened>>
orchVars == <<orch_root, other_fs, orch_pc, run>>
watchVars == <<watch_on, watchers, known_tools, callbacks, chk>>
fileVars == <<fwatch, hc>>
valVars == <<val, rty>>
detVars == <<det>>
cliVars == <<cli>>
laterVars == <<tgen, dreq, emb, cons, lemb>>
otherVars == <<fileVars, valVars, detVars, cliVars, laterVars>>

\* what the calls of one component leave alone
notLoader == <<logVars, orchVars, watchVars, otherVars>>
notLog == <<fsVars, loaderVars, orchVars, watchVars, otherVars>>
notWatcher == <<loaderVars, logVars, orchVars, otherVars>>
notFile == <<fsVars, loaderVars, logVars, orchVars, watchVars, valVars, detVars, cliVars, laterVars>>
notVal == <<fsVars, loaderVars, logVars, orchVars, watchVars, fileVars, detVars, cliVars, laterVars>>
notDet == <<fsVars, loaderVars, logVars, orchVars, watchVars, fileVars, valVars, cliVars, laterVars>>
notFs == <<loaderVars, logVars, orchVars, watchVars, fileVars, valVars, detVars, cliVars>>
settled == <<fsVars, notFs>>

(***************************************************************************)
(* Version strings are compared as Python compares str: code point by code *)
(* point, a proper prefix being smaller.                                   *)
(***************************************************************************)
Chars(v) ==
  CASE v = "1.0" -> <<49, 46, 48>>
    [] v = "2.0" -> <<50, 46, 48>>
    [] v = "10.0" -> <<49, 48, 46, 48>>
    [] OTHER -> <<>>

RECURSIVE SeqLess(_, _)
SeqLess(s, t) ==
  IF t = <<>> THEN FALSE
  ELSE IF s = <<>> THEN TRUE
  ELSE IF Head(s) # Head(t) THEN Head(s) < Head(t)
  ELSE SeqLess(Tail(s), Tail(t))

StrLess(v, w) == SeqLess(Chars(v), Chars(w))

\* sorted(xs, key = ..., reverse = True), where keys[i] is the key of xs[i]:
\* stable, so elements with equal keys keep their order
RECURSIVE InsertDesc(_, _, _)
InsertDesc(i, sorted, keys) ==
  IF sorted = <<>> THEN <<i>>
  ELSE IF StrLess(keys[Head(sorted)], keys[i]) THEN <<i>> \o sorted
  ELSE <<Head(sorted)>> \o InsertDesc(i, Tail(sorted), keys)

RECURSIVE SortedIndices(_, _)
SortedIndices(n, keys) ==
  IF n = 0 THEN <<>>
  ELSE InsertDesc(n, SortedIndices(n - 1, keys), keys)

SortedDesc(xs, keys) ==
  LET idx == SortedIndices(Len(xs), keys)
  IN  [k \in 1..Len(xs) |-> xs[idx[k]]]

VersionKeys(infos) == [i \in 1..Len(infos) |-> infos[i].version]

(***************************************************************************)
(* ToolLoader.discover_tools: one record per directory that holds a        *)
(* SKILL.md, keyed by the directory name, in a fixed iteration order.      *)
(***************************************************************************)
DirOrder == <<"a", "b">>

MetaVersion(d) == IF Exists(d.meta) THEN d.meta.c ELSE "1.0"

ToolInfo(n, d) ==
  [name |-> n, version |-> MetaVersion(d),
   has_metadata |-> Exists(d.meta),
   has_implementation |-> Exists(d.impl),
   impl |-> d.impl.c]

RECURSIVE DiscoverFrom(_, _, _, _)
DiscoverFrom(rootv, fsv, i, acc) ==
  IF i > Len(DirOrder) THEN acc
  ELSE LET n == DirOrder[i]
           d == fsv[n]
       IN  IF rootv /\ d.dir /\ Exists(d.skill)
           THEN DiscoverFrom(rootv, fsv, i + 1,
                             [acc EXCEPT ![n] = Append(@, ToolInfo(n, d))])
           ELSE DiscoverFrom(rootv, fsv, i + 1, acc)

discover_tools(rootv, fsv) == DiscoverFrom(rootv, fsv, 1, [n \in Names |-> <<>>])

(***************************************************************************)
(* ToolLoader state as one value, so that calls compose.  ret is the value *)
(* returned by the last call and attempts the versions passed to load_tool *)
(* during the current top-level call.                                      *)
(***************************************************************************)
LoaderState ==
  [loaded_tools |-> loaded_tools, tool_versions |-> tool_versions,
   heap |-> heap, load_log |-> load_log, ret |-> FALSE, attempts |-> <<>>]

Event(event, tool, reason, version, has_impl, preferred) ==
  [event |-> event, tool |-> tool, reason |-> reason, version |-> version,
   has_implementation |-> has_impl, preferred_version |-> preferred]

log_event(L, e) == [L EXCEPT !.load_log = Append(@, e)]

ToolVersion(name, version, status, module, error) ==
  [name |-> name, version |-> version, status |-> status,
   module |-> module, error |-> error]

\* (t for t in tool_versions if t["version"] == version)
WithVersion(infos, version) == SelectSeq(infos, LAMBDA t : t.version = version)

BoolStr(b) == IF b THEN "True" ELSE "False"

StoreLoaded(L, name, tv) ==
  LET ref == Len(L.heap) + 1
  IN  [L EXCEPT !.heap = Append(@, tv),
                !.loaded_tools[name] = ref,
                !.tool_versions[name] = Append(@, ref)]

\* load_tool that stores the ToolVersion it marked "error"
load_tool_keeps_error(L0, rootv, fsv, name, version) ==
  LET L == [L0 EXCEPT !.attempts = Append(@, version)]
      infos == discover_tools(rootv, fsv)[name]
  IN  IF infos = <<>>
      THEN [log_event(L, Event("load_failed", name, "tool_not_found", None, None, None))
              EXCEPT !.ret = FALSE]
      ELSE
        LET candidates == IF version # None
                          THEN WithVersion(infos, version)
                          ELSE SortedDesc(infos, VersionKeys(infos))
            tool_info == Head(candidates)
        IN  IF candidates = <<>>
            THEN [log_event(L, Event("load_failed", name, "version_not_found", version, None, None))
                    EXCEPT !.ret = FALSE]
            ELSE IF tool_info.has_implementation /\ tool_info.impl = "raise"
            THEN [log_event(StoreLoaded(L, name,
                                        ToolVersion(name, tool_info.version, "error",
                                                    FALSE, "import_error")),
                            Event("load_failed", name, "import_error", None, None, None))
                    EXCEPT !.ret = FALSE]
            ELSE
              LET tv == ToolVersion(name, tool_info.version, "loaded",
                                    tool_info.has_implementation, None)
                  stored == StoreLoaded(L, name, tv)
              IN  [log_event(stored,
                             Event("load_success", name, None, tool_info.version,
                                   BoolStr(tool_info.has_implementation), None))
                     EXCEPT !.ret = TRUE]

load_tool(L0, rootv, fsv, name, version) ==
  LET L == [L0 EXCEPT !.attempts = Append(@, version)]
      infos == discover_tools(rootv, fsv)[name]
  IN  IF infos = <<>>
      THEN [log_event(L, Event("load_failed", name, "tool_not_found", None, None, None))
              EXCEPT !.ret = FALSE]
      ELSE
        LET candidates == IF version # None
                          THEN WithVersion(infos, version)
                          ELSE SortedDesc(infos, VersionKeys(infos))
            tool_info == Head(candidates)
        IN  IF candidates = <<>>
            THEN [log_event(L, Event("load_failed", name, "version_not_found", version, None, None))
                    EXCEPT !.ret = FALSE]
            ELSE IF tool_info.has_implementation /\ tool_info.impl = "raise"
            THEN \* the ToolVersion marked "error" is a local that is dropped
                 [log_event(L, Event("load_failed", name, "import_error", None, None, None))
                    EXCEPT !.ret = FALSE]
            ELSE
              LET tv == ToolVersion(name, tool_info.version, "loaded",
                                    tool_info.has_implementation, None)
                  stored == StoreLoaded(L, name, tv)
              IN  [log_event(stored,
                             Event("load_success", name, None, tool_info.version,
                                   BoolStr(tool_info.has_implementation), None))
                     EXCEPT !.ret = TRUE]

\* unload_tool without the `del self.loaded_tools[tool_name]`
unload_tool_keeps_entry(L, name) ==
  IF L.loaded_tools[name] = 0
  THEN [L EXCEPT !.ret = FALSE]
  ELSE LET ref == L.loaded_tools[name]
           tool == L.heap[ref]
       IN  [log_event([L EXCEPT !.heap[ref].module = FALSE,
                                !.heap[ref].status = "unloaded"],
                      Event("unload_success", name, None, tool.version, None, None))
              EXCEPT !.ret = TRUE]

unload_tool(L, name) ==
  IF L.loaded_tools[name] = 0
  THEN [L EXCEPT !.ret = FALSE]
  ELSE LET ref == L.loaded_tools[name]
           tool == L.heap[ref]
       IN  [log_event([L EXCEPT !.heap[ref].module = FALSE,
                                !.heap[ref].status = "unloaded",
                                !.loaded_tools[name] = 0],
                      Event("unload_success", name, None, tool.version, None, None))
              EXCEPT !.ret = TRUE]

\* reload_tool that forgets the version that was loaded and loads the latest
reload_tool_latest(L, rootv, fsv, name) ==
  IF L.loaded_tools[name] # 0
  THEN load_tool(unload_tool(L, name), rootv, fsv, name, None)
  ELSE load_tool(L, rootv, fsv, name, None)

reload_tool(L, rootv, fsv, name) ==
  IF L.loaded_tools[name] # 0
  THEN LET version == L.heap[L.loaded_tools[name]].version
       IN  load_tool(unload_tool(L, name), rootv, fsv, name, version)
  ELSE load_tool(L, rootv, fsv, name, None)

is_tool_loaded(L, name) ==
  L.loaded_tools[name] # 0 /\ L.heap[L.loaded_tools[name]].status = "loaded"

NoToolInfo ==
  [name |-> None, version |-> None, status |-> None,
   has_implementation |-> FALSE, error |-> None]

get_tool_info(L, name) ==
  IF L.loaded_tools[name] = 0 THEN NoToolInfo
  ELSE LET tool == L.heap[L.loaded_tools[name]]
       IN  [name |-> tool.name, version |-> tool.version, status |-> tool.status,
            has_implementation |-> tool.module, error |-> tool.error]

list_loaded_tools(L) == {n \in Names : L.loaded_tools[n] # 0}

list_available_tools(rootv, fsv) ==
  {n \in Names : discover_tools(rootv, fsv)[n] # <<>>}

get_tool_versions(rootv, fsv, name) ==
  LET infos == discover_tools(rootv, fsv)[name]
  IN  [i \in 1..Len(infos) |-> infos[i].version]

\* the fallback loop ending in `return True` when every version failed
RECURSIVE TryVersions_true(_, _, _, _, _, _)
TryVersions_true(L, rootv, fsv, name, versions, preferred) ==
  IF versions = <<>> THEN [L EXCEPT !.ret = TRUE]
  ELSE LET r == load_tool(L, rootv, fsv, name, Head(versions))
       IN  IF r.ret
           THEN [log_event(r, Event("fallback_success", name, None, Head(versions),
                                    None, preferred))
                   EXCEPT !.ret = TRUE]
           ELSE TryVersions_true(r, rootv, fsv, name, Tail(versions), preferred)

RECURSIVE TryVersions(_, _, _, _, _, _)
TryVersions(L, rootv, fsv, name, versions, preferred) ==
  IF versions = <<>> THEN [L EXCEPT !.ret = FALSE]
  ELSE LET r == load_tool(L, rootv, fsv, name, Head(versions))
       IN  IF r.ret
           THEN [log_event(r, Event("fallback_success", name, None, Head(versions),
                                    None, preferred))
                   EXCEPT !.ret = TRUE]
           ELSE TryVersions(r, rootv, fsv, name, Tail(versions), preferred)

InSeq(x, s) == \E i \in 1..Len(s) : s[i] = x

load_with_fallback(L, rootv, fsv, name, preferred) ==
  LET versions == get_tool_versions(rootv, fsv, name)
      versions_sorted == SortedDesc(versions, versions)
  IN  IF versions = <<>> THEN [L EXCEPT !.ret = FALSE]
      ELSE IF preferred # None /\ InSeq(preferred, versions)
      THEN LET r == load_tool(L, rootv, fsv, name, preferred)
           IN  IF r.ret THEN r
               ELSE TryVersions(r, rootv, fsv, name,
                                SelectSeq(versions_sorted, LAMBDA v : v # preferred),
                                preferred)
      ELSE TryVersions(L, rootv, fsv, name, versions_sorted, preferred)

(***************************************************************************)
(* CreationLog (orchestrator.py).  The log document holds the entry list,  *)
(* total_tools_created and the statistics block; an entry keeps the fields *)
(* of tool_info that the statistics read.  A key that is absent from a     *)
(* dictionary is None here.                                                *)
(***************************************************************************)
Writers == {"w1", "w2"}

Digits(n) == <<(n \div 100) % 10, (n \div 10) % 10, n % 10>>

\* f"tool_{n:03d}": at least three digits, more when n needs them
RECURSIVE AllDigits(_)
AllDigits(n) == IF n < 10 THEN <<n>> ELSE AllDigits(n \div 10) \o <<n % 10>>

Format03d(n) == IF n < 1000 THEN Digits(n) ELSE AllDigits(n)

ToolId(n) == [prefix |-> "tool_", digits |-> Format03d(n)]
NoId == [prefix |-> None, digits |-> <<>>]
CustomId == [prefix |-> "custom", digits |-> <<>>]

GapTypes == {"domain-gap", "format-gap"}

\* _estimate_complexity for a request without entities: 5.0 plus the
\* adjustment of the gap type
GapComplexity(gap_type) == IF gap_type = "domain-gap" THEN 7 ELSE 4

\* the tool_info dictionaries passed to add_entry: with or without an id,
\* a gap type, a complexity score (a sequence of at most one number) and the
\* two flags (None when the key is absent)
NewToolInfo(id, gap_type, score, validation, hotreload) ==
  [id |-> id, capability_gap_type |-> gap_type, complexity_score |-> score,
   validation_passed |-> validation, hotreload_success |-> hotreload]

ToolInfos ==
  {NewToolInfo(NoId, "domain-gap", <<7>>, "True", "True"),
   NewToolInfo(NoId, "format-gap", <<4>>, "False", "False"),
   NewToolInfo(NoId, None, <<>>, None, None),
   NewToolInfo(CustomId, "domain-gap", <<7>>, "True", "False"),
   NewToolInfo(CustomId, "format-gap", <<>>, "False", "True"),
   NewToolInfo(CustomId, None, <<4>>, None, None)}

\* a float that is a quotient of two integers; 0.0 is 0 / 1
Quotient(num, den) == [num |-> num, den |-> den]

DefaultLog ==
  [total_tools_created |-> 0, tools |-> <<>>,
   by_gap_type |-> [g \in {} |-> 0],
   average_complexity |-> Quotient(0, 1),
   validation_pass_rate |-> Quotient(0, 1),
   hotreload_success_rate |-> Quotient(0, 1)]

NoLogFile == [exists |-> FALSE, data |-> DefaultLog]

\* CreationLog._load_log
load_log_file(file) == IF file.exists THEN file.data ELSE DefaultLog

\* {"id": tool_id, "created_at": ..., **tool_info}: the keys of tool_info win
Entry(tool_id, tool_info) ==
  [id |-> IF tool_info.id # NoId THEN tool_info.id ELSE tool_id,
   capability_gap_type |-> tool_info.capability_gap_type,
   complexity_score |-> tool_info.complexity_score,
   validation_passed |-> tool_info.validation_passed,
   hotreload_success |-> tool_info.hotreload_success]

\* tool.get("capability_gap_type", "unknown")
GapOf(tool) ==
  IF tool.capability_gap_type = None THEN "unknown" ELSE tool.capability_gap_type

RECURSIVE CountGaps(_, _, _)
CountGaps(tools, i, gap_counts) ==
  IF i > Len(tools) THEN gap_counts
  ELSE LET g == GapOf(tools[i])
           n == IF g \in DOMAIN gap_counts THEN gap_counts[g] ELSE 0
       IN  CountGaps(tools, i + 1,
                     [h \in DOMAIN gap_counts \cup {g} |->
                        IF h = g THEN n + 1 ELSE gap_counts[h]])

\* t.get("complexity_score", 0)
ScoreOf(tool) ==
  IF tool.complexity_score = <<>> THEN 0 ELSE tool.complexity_score[1]

\* sum(values) over the tools, a True counting 1 and a False or a missing
\* key 0
\* sum(values)
RECURSIVE Sum(_)
Sum(values) == IF values = <<>> THEN 0 ELSE Head(values) + Sum(Tail(values))

\* a True counts 1, a False or a missing key 0
Flag(v) == IF v = "True" THEN 1 ELSE 0

\* _update_statistics without its recomputation
update_statistics_stale(data) == data

\* CreationLog._update_statistics
update_statistics(data) ==
  IF data.tools = <<>> THEN data
  ELSE [data EXCEPT
          !.by_gap_type = CountGaps(data.tools, 1, [g \in {} |-> 0]),
          !.average_complexity =
             Quotient(Sum([i \in 1..Len(data.tools) |-> ScoreOf(data.tools[i])]),
                      Len(data.tools)),
          !.validation_pass_rate =
             Quotient(Sum([i \in 1..Len(data.tools) |->
                             Flag(data.tools[i].validation_passed)]),
                      Len(data.tools)),
          !.hotreload_success_rate =
             Quotient(Sum([i \in 1..Len(data.tools) |->
                             Flag(data.tools[i].hotreload_success)]),
                      Len(data.tools))]

\* add_entry re-reading the file before it appends
add_entry_reread(data, tool_info) ==
  LET current == load_log_file(log_file)
      tool_id == ToolId(Len(current.tools) + 1)
      appended == [current EXCEPT !.tools = Append(@, Entry(tool_id, tool_info))]
      counted == [appended EXCEPT !.total_tools_created = Len(appended.tools)]
  IN  [data |-> update_statistics(counted), tool_id |-> tool_id]

\* CreationLog.add_entry up to the save: the new document and the tool id
add_entry(data, tool_info) ==
  LET tool_id == ToolId(Len(data.tools) + 1)
      appended == [data EXCEPT !.tools = Append(@, Entry(tool_id, tool_info))]
      counted == [appended EXCEPT !.total_tools_created = Len(appended.tools)]
  IN  [data |-> update_statistics(counted), tool_id |-> tool_id]

\* CreationLog._save_log
save_log(data) == [exists |-> TRUE, data |-> data]

get_tools(data) == data.tools
get_stats(data) ==
  [by_gap_type |-> data.by_gap_type,
   average_complexity |-> data.average_complexity,
   validation_pass_rate |-> data.validation_pass_rate,
   hotreload_success_rate |-> data.hotreload_success_rate]

NotOpened == [base |-> 0, added |-> <<>>]

\* the add_entry calls begun so far
Begun == Len(returned) + Cardinality({w \in Writers : log_pc[w] = "saving"})

\* CreationLog.__init__
OpenLog(w) ==
  /\ log_pc[w] \in {"closed", "idle"}
  /\ log_data' = [log_data EXCEPT ![w] = load_log_file(log_file)]
  /\ log_pc' = [log_pc EXCEPT ![w] = "idle"]
  /\ opened' = [opened EXCEPT ![w] = [base |-> Len(load_log_file(log_file).tools),
                                      added |-> <<>>]]
  /\ opened'[w] # opened[w] \/ log_data'[w] # log_data[w] \/ log_pc[w] = "closed"
  /\ UNCHANGED <<log_file, pending, returned, notLog>>

\* add_entry, lines 65-77: the entry is appended in memory
AddEntry(w, tool_info) ==
  /\ log_pc[w] = "idle"
  /\ Begun < MaxEntries
  /\ LET r == add_entry(log_data[w], tool_info)
     IN  /\ log_data' = [log_data EXCEPT ![w] = r.data]
         /\ pending' = [pending EXCEPT ![w] = r.tool_id]
  /\ log_pc' = [log_pc EXCEPT ![w] = "saving"]
  /\ opened' = [opened EXCEPT ![w].added = Append(@, tool_info)]
  /\ UNCHANGED <<log_file, returned, notLog>>

\* add_entry, lines 80-82: the document is written and the id returned
SaveLog(w) ==
  /\ log_pc[w] = "saving"
  /\ log_file' = save_log(log_data[w])
  /\ returned' = Append(returned, [writer |-> w, id |-> pending[w]])
  /\ pending' = [pending EXCEPT ![w] = NoId]
  /\ log_pc' = [log_pc EXCEPT ![w] = "idle"]
  /\ UNCHANGED <<log_data, opened, notLog>>

(***************************************************************************)
(* FileWatcher and ToolWatcher (tool_watcher.py).  A file's hash is its    *)
(* content.  The files of a tool are taken in the order the code creates   *)
(* their FileWatchers.                                                     *)
(***************************************************************************)
WatchedFiles == <<"skill", "meta", "impl">>

FileName(f) ==
  CASE f = "skill" -> "SKILL.md"
    [] f = "meta" -> "metadata.json"
    [] f = "impl" -> "implementation.py"

NoFileWatcher == [on |-> FALSE, last_modified |-> 0, last_hash |-> ""]

compute_hash(file) == IF Exists(file) THEN file.c ELSE ""

\* FileWatcher.__init__
FileWatcher(file) ==
  IF Exists(file)
  THEN [on |-> TRUE, last_modified |-> file.mt, last_hash |-> compute_hash(file)]
  ELSE [on |-> TRUE, last_modified |-> 0, last_hash |-> ""]

\* FileWatcher.has_changed: the watcher afterwards and the value returned
has_changed(fw, file) ==
  IF ~Exists(file)
  THEN [fw |-> fw, changed |-> fw.last_modified # 0 \/ fw.last_hash # ""]
  ELSE IF file.mt # fw.last_modified /\ compute_hash(file) # fw.last_hash
  THEN [fw |-> [fw EXCEPT !.last_modified = file.mt,
                          !.last_hash = compute_hash(file)],
        changed |-> TRUE]
  ELSE [fw |-> fw, changed |-> FALSE]

\* exc: an exception is propagating out of the call
WatcherState ==
  [watchers |-> watchers, known_tools |-> known_tools, fired |-> <<>>,
   changes |-> <<>>, exc |-> FALSE]

Watched(W) == {W.watchers[i].tool : i \in 1..Len(W.watchers)}

\* ToolWatcher.get_watched_tools
get_watched_tools(W) == [i \in 1..Len(W.watchers) |-> W.watchers[i].tool]

\* a callback is what it does when invoked: it returns, or raises an Exception
CallbackKinds == {"returns", "raises"}

Invocation(event, tool, file, i) ==
  [event |-> event, tool |-> tool, file |-> file, cb |-> i]

\* _trigger_event with its except clause removed: the first callback that
\* raises ends the loop and the exception propagates
RECURSIVE trigger_event_uncaught(_, _, _, _, _, _)
trigger_event_uncaught(W, cbs, event, tool, file, i) ==
  IF i > Len(cbs[event]) THEN W
  ELSE LET W1 == [W EXCEPT !.fired = Append(@, Invocation(event, tool, file, i))]
       IN  IF cbs[event][i] = "raises"
           THEN [W1 EXCEPT !.exc = TRUE]
           ELSE trigger_event_uncaught(W1, cbs, event, tool, file, i + 1)

\* ToolWatcher._trigger_event: every callback registered for the event, in
\* registration order from callback i on; an Exception raised by a callback
\* is caught and the loop goes on
RECURSIVE trigger_event(_, _, _, _, _, _)
trigger_event(W, cbs, event, tool, file, i) ==
  IF i > Len(cbs[event]) THEN W
  ELSE LET W1 == [W EXCEPT !.fired = Append(@, Invocation(event, tool, file, i))]
       IN  trigger_event(W1, cbs, event, tool, file, i + 1)

\* the FileWatchers made for a tool that is new to self.watchers
NewWatchers(d) ==
  [f \in {"skill", "meta", "impl"} |->
     IF Exists(d[f]) THEN FileWatcher(d[f]) ELSE NoFileWatcher]

\* _scan_tools, lines 88-116: the directories in iteration order
RECURSIVE ScanDirs(_, _, _, _, _)
ScanDirs(W, cbs, fsv, dirs, known) ==
  IF dirs = <<>> \/ W.exc THEN W
  ELSE LET n == Head(dirs)
           is_new == n \notin Watched(W)
           W1 == IF is_new
                 THEN [W EXCEPT !.watchers =
                         Append(@, [tool |-> n, files |-> NewWatchers(fsv[n])])]
                 ELSE W
           W2 == IF is_new /\ n \notin known
                 THEN trigger_event(W1, cbs, "tool_added", n, None, 1)
                 ELSE W1
       IN  ScanDirs(W2, cbs, fsv, Tail(dirs), known)

\* _scan_tools, lines 119-122: the removed tools in iteration order
RECURSIVE DropRemoved(_, _, _)
DropRemoved(W, cbs, removed) ==
  IF removed = <<>> \/ W.exc THEN W
  ELSE LET n == Head(removed)
           W1 == trigger_event(W, cbs, "tool_removed", n, None, 1)
       IN  IF W1.exc THEN W1
           ELSE DropRemoved([W1 EXCEPT !.watchers =
                               SelectSeq(@, LAMBDA e : e.tool # n)],
                            cbs, Tail(removed))

Present(rootv, fsv) == {n \in Names : rootv /\ fsv[n].dir}

\* the orders in which a set can be iterated
Orders(S) ==
  {o \in [1..Cardinality(S) -> S] : \A i, j \in 1..Cardinality(S) : i # j => o[i] # o[j]}

\* ToolWatcher._scan_tools; dirs is the order iterdir() yields the
\* directories and gone the order the set of removed tools is iterated
scan_tools(W, cbs, rootv, fsv, dirs, gone) ==
  IF ~rootv THEN W
  ELSE LET scanned == ScanDirs(W, cbs, fsv, dirs, W.known_tools)
           current_tools == Range(dirs)
           removed_tools == W.known_tools \ current_tools
           dropped == DropRemoved(scanned, cbs,
                                  SelectSeq(gone, LAMBDA n : n \in removed_tools))
       IN  IF dropped.exc THEN dropped
           ELSE [dropped EXCEPT !.known_tools = current_tools]

\* check(), lines 139-149: the FileWatchers of tool i from file k on
RECURSIVE CheckFiles(_, _, _, _, _)
CheckFiles(W, cbs, fsv, i, k) ==
  IF i > Len(W.watchers) \/ W.exc THEN W
  ELSE IF k > Len(WatchedFiles) THEN CheckFiles(W, cbs, fsv, i + 1, 1)
  ELSE LET f == WatchedFiles[k]
           tool == W.watchers[i].tool
           fw == W.watchers[i].files[f]
           r == has_changed(fw, fsv[tool][f])
           W1 == [W EXCEPT !.watchers[i].files[f] = r.fw]
           W2 == [W1 EXCEPT !.changes =
                    Append(@, [event |-> "tool_updated", tool |-> tool,
                               file |-> FileName(f)])]
       IN  IF fw.on /\ r.changed
           THEN CheckFiles(trigger_event(W2, cbs, "tool_updated", tool,
                                         FileName(f), 1),
                           cbs, fsv, i, k + 1)
           ELSE CheckFiles(W, cbs, fsv, i, k + 1)

\* ToolWatcher.check
check(W, cbs, rootv, fsv, dirs, gone) ==
  CheckFiles(scan_tools(W, cbs, rootv, fsv, dirs, gone), cbs, fsv, 1, 1)

(***************************************************************************)
(* Records of the calls made, kept for the properties below.               *)
(*   last  : the last ToolLoader call, its result and the state before it  *)
(*   cycle : progress of a load / unload / re-load sequence on one name    *)
(*           with the tool's directory unchanged                           *)
(***************************************************************************)
Registry(L) ==
  [n \in Names |-> IF L.loaded_tools[n] = 0 THEN NoToolInfo ELSE get_tool_info(L, n)]

NoCall ==
  [op |-> "none", name |-> None, version |-> None, ret |-> FALSE,
   attempts |-> <<>>, known |-> <<>>,
   pre |-> [loaded_tools |-> [n \in Names |-> 0],
            tool_versions |-> [n \in Names |-> <<>>],
            heap |-> <<>>, load_log |-> <<>>, ret |-> FALSE, attempts |-> <<>>]]

NoCycle ==
  [stage |-> 0, name |-> None, version |-> None,
   reg |-> [n \in Names |-> NoToolInfo], dir |-> NoDir]

NextCycle(op, name, version, r) ==
  IF /\ cycle.stage = 1 /\ op = "unload" /\ name = cycle.name
     /\ root_exists /\ fs[name] = cycle.dir
  THEN [cycle EXCEPT !.stage = 2]
  ELSE IF /\ cycle.stage = 2 /\ name = cycle.name
          /\ op = "reload" \/ (op = "load" /\ version = cycle.version)
          /\ root_exists /\ fs[name] = cycle.dir
  THEN [cycle EXCEPT !.stage = 3]
  ELSE IF op = "load" /\ r.ret
  THEN [stage |-> 1, name |-> name, version |-> version,
        reg |-> Registry(r), dir |-> fs[name]]
  ELSE NoCycle

Apply(op, name, version, r) ==
  /\ loaded_tools' = r.loaded_tools
  /\ tool_versions' = r.tool_versions
  /\ heap' = r.heap
  /\ load_log' = r.load_log
  /\ last' = [op |-> op, name |-> name, version |-> version, ret |-> r.ret,
              attempts |-> r.attempts,
              known |-> get_tool_versions(root_exists, fs, name),
              pre |-> LoaderState]
  /\ cycle' = NextCycle(op, name, version, r)

\* a call made directly on the loader: the event log is kept within MaxLog
Commit(op, name, version, r) ==
  /\ Len(r.load_log) <= MaxLog
  /\ Apply(op, name, version, r)

ReqVersions == {None} \cup Versions

LoadTool(name, version) ==
  /\ Commit("load", name, version,
            load_tool(LoaderState, root_exists, fs, name, version))
  /\ UNCHANGED <<fsVars, notLoader>>

UnloadTool(name) ==
  /\ Commit("unload", name, None, unload_tool(LoaderState, name))
  /\ UNCHANGED <<fsVars, notLoader>>

ReloadTool(name) ==
  /\ Commit("reload", name, None,
            reload_tool(LoaderState, root_exists, fs, name))
  /\ UNCHANGED <<fsVars, notLoader>>

LoadWithFallback(name, preferred) ==
  /\ Commit("fallback", name, preferred,
            load_with_fallback(LoaderState, root_exists, fs, name, preferred))
  /\ UNCHANGED <<fsVars, notLoader>>

(***************************************************************************)
(* The environment of the loader: tool directories are written and removed *)
(* between calls, and the skills directory itself can be removed.          *)
(***************************************************************************)
File(c) == IF c = "" THEN NoFile ELSE [c |-> c, mt |-> 1]

WriteTool(name, skill, meta, impl) ==
  /\ root_exists
  /\ skill = "" => (meta = "" /\ impl = "")
  /\ fs' = [fs EXCEPT ![name] = [dir |-> TRUE, skill |-> File(skill),
                                 meta |-> File(meta), impl |-> File(impl)]]
  /\ fs' # fs
  /\ UNCHANGED <<root_exists, loaderVars, notLoader>>

RemoveTool(name) ==
  /\ fs[name].dir
  /\ fs' = [fs EXCEPT ![name] = NoDir]
  /\ UNCHANGED <<root_exists, loaderVars, notLoader>>

RemoveRoot ==
  /\ root_exists
  /\ root_exists' = FALSE
  /\ fs' = [n \in Names |-> NoDir]
  /\ UNCHANGED <<loaderVars, notLoader>>

CreateRoot ==
  /\ ~root_exists
  /\ root_exists' = TRUE
  /\ UNCHANGED <<fs, loaderVars, notLoader>>

(***************************************************************************)
(* ToolGenerator.create_tool (tool_generator.py) on one tool directory.    *)
(* outcome says where the environment makes it fail, if anywhere.          *)
(***************************************************************************)
Answers == {"y", "n"}

GenOutcomes == {"ok", "mkdir_raises", "skill_fails", "meta_fails", "tests_fails",
                "readme_fails"}

GeneratedSkill == [c |-> "generated", mt |-> 1]
GeneratedMeta == [c |-> "1.0", mt |-> 1]

create_tool(d, outcome) ==
  IF outcome = "mkdir_raises" THEN [dir |-> d, ret |-> "raised"]
  ELSE LET made == [d EXCEPT !.dir = TRUE]
       IN  IF outcome = "skill_fails" THEN [dir |-> made, ret |-> "False"]
           ELSE IF outcome = "meta_fails"
           THEN [dir |-> [made EXCEPT !.skill = GeneratedSkill], ret |-> "False"]
           ELSE [dir |-> [made EXCEPT !.skill = GeneratedSkill, !.meta = GeneratedMeta],
                 ret |-> IF outcome = "ok" THEN "True" ELSE "False"]

(***************************************************************************)
(* DynamicToolOrchestrator (orchestrator.py).  Its loader is the global    *)
(* one, rooted at "skills"; its generator and validator are rooted at the  *)
(* directory given to the constructor.  The orchestrator's CreationLog is  *)
(* instance w1.                                                            *)
(***************************************************************************)
OrchLog == "w1"
Roots == {"skills", "other"}
LoadAttempts == 5

NoRun ==
  [n |-> 0, auto |-> FALSE, name |-> None, gap_type |-> None,
   gap |-> None, approved |-> None, generation |-> None, validation |-> None,
   continued |-> None, attempts |-> 0, hotreload |-> None, calls |-> <<>>,
   finished |-> FALSE, raised |-> FALSE, success |-> FALSE, message |-> None,
   tool_id |-> NoId]

\* DynamicToolOrchestrator.__init__
NewOrchestrator(root) ==
  /\ orch_pc = "none"
  /\ orch_root' = root
  /\ orch_pc' = "idle"
  /\ log_data' = [log_data EXCEPT ![OrchLog] = load_log_file(log_file)]
  /\ log_pc' = [log_pc EXCEPT ![OrchLog] = "idle"]
  /\ opened' = [opened EXCEPT ![OrchLog] =
                  [base |-> Len(load_log_file(log_file).tools), added |-> <<>>]]
  /\ UNCHANGED <<log_file, pending, returned, fsVars, loaderVars, other_fs, run, watchVars,
               otherVars>>

Returned(r, success, message) ==
  [r EXCEPT !.finished = TRUE, !.success = success, !.message = message]

\* create_tool_on_demand going on to the Generator whatever is answered at the
\* creation prompt
FirstSteps_unasked(r0, auto, gap, name, gap_type, answer1, gen, valid, answer2) ==
  LET r1 == [r0 EXCEPT !.auto = auto, !.gap = BoolStr(gap),
                       !.calls = <<"list_available_tools", "detect_gap">>]
  IN  IF ~gap THEN Returned(r1, TRUE, "No new tool needed")
      ELSE
      LET r2 == [r1 EXCEPT !.name = name, !.gap_type = gap_type,
                           !.approved = IF auto THEN "auto" ELSE answer1,
                           !.calls = IF auto THEN @ ELSE Append(@, "input")]
          made == create_tool(NoDir, gen)
          r3 == [r2 EXCEPT !.generation = made.ret,
                           !.calls = Append(@, "create_tool")]
      IN  IF made.ret = "raised" THEN [r3 EXCEPT !.finished = TRUE, !.raised = TRUE]
          ELSE IF made.ret = "False" THEN Returned(r3, FALSE, "Generation failed")
          ELSE
          LET r4 == [r3 EXCEPT !.validation = BoolStr(valid),
                               !.calls = Append(@, "validate_tool")]
              r5 == [r4 EXCEPT !.continued = answer2,
                               !.calls = Append(@, "input")]
          IN  IF valid \/ auto THEN r4
              ELSE IF answer2 # "y"
              THEN Returned(r5, FALSE, "Validation failed, aborted")
              ELSE r5

\* create_tool_on_demand, steps 1 to 4 (lines 160-234), from the outcome of
\* each collaborator and the answers typed at the prompts
FirstSteps(r0, auto, gap, name, gap_type, answer1, gen, valid, answer2) ==
  LET r1 == [r0 EXCEPT !.auto = auto, !.gap = BoolStr(gap),
                       !.calls = <<"list_available_tools", "detect_gap">>]
  IN  IF ~gap THEN Returned(r1, TRUE, "No new tool needed")
      ELSE
      LET r2 == [r1 EXCEPT !.name = name, !.gap_type = gap_type,
                           !.approved = IF auto THEN "auto" ELSE answer1,
                           !.calls = IF auto THEN @ ELSE Append(@, "input")]
      IN  IF ~auto /\ answer1 # "y" THEN Returned(r2, FALSE, "Cancelled by user")
          ELSE
          LET made == create_tool(NoDir, gen)
              r3 == [r2 EXCEPT !.generation = made.ret,
                               !.calls = Append(@, "create_tool")]
          IN  IF made.ret = "raised" THEN [r3 EXCEPT !.finished = TRUE, !.raised = TRUE]
              ELSE IF made.ret = "False" THEN Returned(r3, FALSE, "Generation failed")
              ELSE
              LET r4 == [r3 EXCEPT !.validation = BoolStr(valid),
                                   !.calls = Append(@, "validate_tool")]
                  r5 == [r4 EXCEPT !.continued = answer2,
                                   !.calls = Append(@, "input")]
              IN  IF valid \/ auto THEN r4
                  ELSE IF answer2 # "y"
                  THEN Returned(r5, FALSE, "Validation failed, aborted")
                  ELSE r5

\* the tool_info of step 6 with the load reported as having succeeded
CreatedInfo_loaded(r, load_success) ==
  NewToolInfo(NoId, r.gap_type, <<GapComplexity(r.gap_type)>>, r.validation,
           "True")

\* the tool_info of step 6 (lines 258-268)
CreatedInfo(r, load_success) ==
  NewToolInfo(NoId, r.gap_type, <<GapComplexity(r.gap_type)>>, r.validation,
           BoolStr(load_success))

CreateToolOnDemand(auto, gap, name, gap_type, answer1, gen, valid, answer2) ==
  /\ orch_pc = "idle"
  /\ run.n < MaxRuns
  /\ LET r == FirstSteps([NoRun EXCEPT !.n = run.n + 1], auto, gap, name,
                         gap_type, answer1, gen, valid, answer2)
         generated == r.generation # None
         here == orch_root = "skills"
     IN  /\ run' = r
         /\ orch_pc' = IF r.finished THEN "idle" ELSE "hotreload"
         /\ fs' = IF generated /\ here
                  THEN [fs EXCEPT ![name] = create_tool(@, gen).dir] ELSE fs
         /\ root_exists' = IF generated /\ here /\ gen # "mkdir_raises"
                           THEN TRUE ELSE root_exists
         /\ other_fs' = IF generated /\ ~here
                        THEN [other_fs EXCEPT ![name] = create_tool(@, gen).dir]
                        ELSE other_fs
  /\ UNCHANGED <<loaderVars, logVars, orch_root, watchVars, otherVars>>

\* one pass of the hot-reload loop (lines 241-246) and, when the loop ends,
\* steps 5 and 6 to the return (lines 248-278)
HotReloadAttempt ==
  /\ orch_pc = "hotreload"
  /\ LET r == load_tool(LoaderState, root_exists, fs, run.name, None)
         attempts == run.attempts + 1
         over == r.ret \/ attempts = LoadAttempts
         tried == [run EXCEPT !.attempts = attempts, !.calls = Append(@, "load_tool")]
         added == add_entry(log_data[OrchLog], CreatedInfo(run, r.ret))
     IN  /\ Apply("load", run.name, None, r)
         /\ IF over
            THEN /\ run' = [Returned(tried, TRUE, None)
                              EXCEPT !.hotreload = BoolStr(r.ret),
                                     !.calls = Append(@, "add_entry"),
                                     !.tool_id = added.tool_id]
                 /\ orch_pc' = "idle"
                 /\ log_data' = [log_data EXCEPT ![OrchLog] = added.data]
                 /\ log_file' = save_log(added.data)
                 /\ returned' = Append(returned, [writer |-> OrchLog, id |-> added.tool_id])
                 /\ opened' = [opened EXCEPT ![OrchLog].added =
                                 Append(@, CreatedInfo(run, r.ret))]
            ELSE /\ run' = tried
                 /\ UNCHANGED <<orch_pc, log_data, log_file, returned, opened>>
  /\ UNCHANGED <<fsVars, log_pc, pending, orch_root, other_fs, watchVars, otherVars>>

(***************************************************************************)
(* The ToolWatcher's operations, and the file system changing under it.    *)
(***************************************************************************)
Events == {"tool_added", "tool_updated", "tool_removed"}
NoCallbacks == [e \in Events |-> <<>>]
Registered == Len(callbacks["tool_added"]) + Len(callbacks["tool_updated"])
                + Len(callbacks["tool_removed"])

\* the callbacks with every one of them returning
Quiet(cbs) == [e \in Events |-> [i \in 1..Len(cbs[e]) |-> "returns"]]

\* the watcher's state as the caller can observe it
Observable(W) ==
  [watchers |-> W.watchers, known_tools |-> W.known_tools, changes |-> W.changes,
   fired |-> W.fired]

\* n: check() calls made; prev, cur: the directories present at the scan
\* before and at this one; at: the files at this one; differ: the files whose
\* content is not what it was at the scan before; edited: those of them that
\* were there at both scans; told: the tools whose
\* removal was announced and that no scan has found since; again: those
\* announced once more by this scan; quiet: what the scan would have left had
\* no callback raised
NoScan == [n |-> 0, prev |-> {}, cur |-> {}, cbs |-> NoCallbacks,
           fired |-> <<>>, changes |-> <<>>, exc |-> FALSE,
           at |-> [n \in Names |-> NoDir], differ |-> {},
           told |-> {}, again |-> {},
           edited |-> {},
           quiet |-> [watchers |-> <<>>, known_tools |-> {}, changes |-> <<>>,
                      fired |-> <<>>]]

\* the files, by tool and name, whose content (none when the file is absent)
\* differs between two states of the file system
Differ(fs1, fs2) ==
  {tf \in Names \X Range(WatchedFiles) :
     compute_hash(fs1[tf[1]][tf[2]]) # compute_hash(fs2[tf[1]][tf[2]])}

Announced(W, event) ==
  {W.fired[k].tool : k \in {j \in 1..Len(W.fired) : W.fired[j].event = event}}

\* what a scan leaves in the watcher, and the record of it
Scanned(W, Q, n) ==
  /\ watchers' = W.watchers
  /\ known_tools' = W.known_tools
  /\ chk' = [n |-> n, prev |-> chk.cur, cur |-> Present(root_exists, fs),
             cbs |-> callbacks, fired |-> W.fired, changes |-> W.changes,
             exc |-> W.exc, at |-> fs, differ |-> Differ(chk.at, fs),
             edited |-> {tf \in Differ(chk.at, fs) :
                           /\ Exists(chk.at[tf[1]][tf[2]])
                           /\ Exists(fs[tf[1]][tf[2]])},
             told |-> (chk.told \cup Announced(W, "tool_removed"))
                        \ Present(root_exists, fs),
             again |-> chk.told \cap Announced(W, "tool_removed"),
             quiet |-> Observable(Q)]

\* ToolWatcher.__init__
NewToolWatcher ==
  /\ ~watch_on
  /\ watch_on' = TRUE
  /\ \E dirs \in Orders(Present(root_exists, fs)) :
       Scanned(scan_tools(WatcherState, callbacks, root_exists, fs, dirs, <<>>),
               scan_tools(WatcherState, Quiet(callbacks), root_exists, fs, dirs, <<>>),
               0)
  /\ UNCHANGED <<callbacks, fsVars, notWatcher>>

\* ToolWatcher.on; an unknown event is ignored
On(event, callback) ==
  /\ watch_on
  /\ Registered < MaxCallbacks
  /\ callbacks' = IF event \in Events
                  THEN [callbacks EXCEPT ![event] = Append(@, callback)]
                  ELSE callbacks
  /\ UNCHANGED <<watch_on, watchers, known_tools, chk, fsVars, notWatcher>>

\* ToolWatcher.check
Check ==
  /\ watch_on
  /\ chk.n < MaxChecks
  /\ \E dirs \in Orders(Present(root_exists, fs)) :
     \E gone \in Orders(known_tools \ Present(root_exists, fs)) :
       Scanned(check(WatcherState, callbacks, root_exists, fs, dirs, gone),
               check(WatcherState, Quiet(callbacks), root_exists, fs, dirs, gone),
               chk.n + 1)
  /\ UNCHANGED <<watch_on, callbacks, fsVars, notWatcher>>

\* a file of a tool is written: new content, new modification time, or both
WriteFile(name, f, c, mt) ==
  /\ fs[name].dir
  /\ fs' = [fs EXCEPT ![name][f] = [c |-> c, mt |-> mt]]
  /\ fs' # fs
  /\ UNCHANGED <<root_exists, loaderVars, notLoader>>

DeleteFile(name, f) ==
  /\ Exists(fs[name][f])
  /\ fs' = [fs EXCEPT ![name][f] = NoFile]
  /\ UNCHANGED <<root_exists, loaderVars, notLoader>>

(***************************************************************************)
(* A FileWatcher used on its own, on the SKILL.md of tool "a".              *)
(***************************************************************************)
WatchedFile == fs["a"]["skill"]

\* n: has_changed() calls made; ret: the value the last one returned; now: the
\* content (none when the file is absent) at that call; prev: the content at
\* the call before it, or at construction; since: the content at the last call
\* before it that returned True, or at construction; mark: the same, this call
\* included
NoCalls == [n |-> 0, ret |-> FALSE, now |-> "", prev |-> "", since |-> "", mark |-> ""]

\* FileWatcher(path)
NewFileWatcher ==
  /\ ~fwatch.on
  /\ fwatch' = FileWatcher(WatchedFile)
  /\ hc' = [NoCalls EXCEPT !.now = compute_hash(WatchedFile),
                           !.prev = compute_hash(WatchedFile),
                           !.since = compute_hash(WatchedFile),
                           !.mark = compute_hash(WatchedFile)]
  /\ UNCHANGED notFile

\* FileWatcher.has_changed()
HasChanged ==
  /\ fwatch.on
  /\ hc.n < MaxCalls
  /\ LET r == has_changed(fwatch, WatchedFile)
     IN  /\ fwatch' = r.fw
         /\ hc' = [n |-> hc.n + 1, ret |-> r.changed,
                   now |-> compute_hash(WatchedFile), prev |-> hc.now,
                   since |-> hc.mark,
                   mark |-> IF r.changed THEN compute_hash(WatchedFile) ELSE hc.mark]
  /\ UNCHANGED notFile

(***************************************************************************)
(* ToolValidator (tool_validator.py).  A tool directory is described by    *)
(* what each phase reads of it.                                            *)
(***************************************************************************)
\* SKILL.md: absent, or with or without valid front matter and with or without
\* the required sections, length and code examples
SkillKinds == {"absent", "bare", "front_only", "docs_only", "complete"}
\* metadata.json: absent, not JSON, a JSON value that is no container (a
\* number, null, a boolean), an object lacking a required field, an object
\* with a status outside the accepted ones, a valid object
MetaKinds == {"absent", "not_json", "scalar", "missing_field", "bad_status", "valid"}
\* implementation.py
SyntaxKinds == {"absent", "syntax_error", "valid"}
\* tests.py: absent, or what running it gives
TestsKinds == {"absent", "exit_nonzero", "timeout", "exit_zero"}

ToolDirs ==
  [exists : {TRUE}, readable : BOOLEAN, skill : SkillKinds, meta : MetaKinds,
   impl : SyntaxKinds, tests : TestsKinds]

MissingDir ==
  [exists |-> FALSE, readable |-> FALSE, skill |-> "absent", meta |-> "absent",
   impl |-> "absent", tests |-> "absent"]

Phases == {"structure", "documentation", "metadata", "syntax", "tests"}

Passed(b) == IF b THEN "passed" ELSE "failed"

\* ToolValidator.validate_structure
validate_structure(d) ==
  Passed(/\ d.skill # "absent"
         /\ d.meta # "absent"
         /\ d.readable
         /\ d.skill \in {"front_only", "complete"})

\* ToolValidator.validate_documentation
validate_documentation(d) == Passed(d.skill \in {"docs_only", "complete"})

\* ToolValidator.validate_metadata; `field in metadata` raises TypeError when
\* the JSON value loaded is no container
validate_metadata(d) == IF d.meta = "scalar" THEN "raised" ELSE Passed(d.meta = "valid")

\* ToolValidator.validate_syntax
validate_syntax(d) == Passed(d.impl = "valid")

\* ToolValidator.run_tests
run_tests(d) == Passed(d.tests = "exit_zero")

NoValidations == [p \in Phases |-> "skipped"]

\* ToolValidator.validate_tool: the dictionary returned, or the exception
validate_tool(d) ==
  IF ~d.exists
  THEN [raised |-> FALSE, error |-> "Tool directory does not exist",
        validations |-> NoValidations, all_passed |-> FALSE]
  ELSE IF validate_metadata(d) = "raised"
  THEN [raised |-> TRUE, error |-> "TypeError",
        validations |-> NoValidations, all_passed |-> FALSE]
  ELSE LET validations ==
             [p \in Phases |->
                CASE p = "structure" -> validate_structure(d)
                  [] p = "documentation" -> validate_documentation(d)
                  [] p = "metadata" -> validate_metadata(d)
                  [] p = "syntax" -> IF d.impl # "absent" THEN validate_syntax(d)
                                     ELSE "skipped"
                  [] p = "tests" -> IF d.tests # "absent" THEN run_tests(d)
                                    ELSE "skipped"]
       IN  [raised |-> FALSE, error |-> None, validations |-> validations,
            all_passed |-> \A p \in Phases : validations[p] # "failed"]

NoRetries == [raised |-> FALSE, error |-> None, all_passed |-> FALSE,
              attempts |-> 0, all_retries_failed |-> FALSE, runs |-> 0,
              sleeps |-> 0, last |-> 0]

\* validate_with_retry, the loop from attempt + 1 on: ds[k] is the tool
\* directory as validate_tool finds it at the k-th run; last is the run whose
\* result is returned
RECURSIVE RetryFrom(_, _, _, _)
RetryFrom(R, ds, max_retries, attempt) ==
  IF attempt >= max_retries
  THEN IF R.runs = 0
       THEN [R EXCEPT !.raised = TRUE, !.error = "UnboundLocalError"]
       ELSE [R EXCEPT !.attempts = max_retries, !.all_retries_failed = TRUE]
  ELSE LET results == validate_tool(ds[attempt + 1])
           R1 == [R EXCEPT !.runs = @ + 1, !.last = attempt + 1,
                           !.all_passed = results.all_passed]
       IN  IF results.raised
           THEN [R1 EXCEPT !.raised = TRUE, !.error = results.error]
           ELSE IF results.all_passed
           THEN [R1 EXCEPT !.attempts = attempt + 1]
           ELSE RetryFrom(IF attempt < max_retries - 1
                          THEN [R1 EXCEPT !.sleeps = @ + 1] ELSE R1,
                          ds, max_retries, attempt + 1)

\* ToolValidator.validate_with_retry
validate_with_retry(ds, max_retries) == RetryFrom(NoRetries, ds, max_retries, 0)

NotValidated == [called |-> FALSE, d |-> MissingDir, res |-> validate_tool(MissingDir)]
NotRetried == [called |-> FALSE, max_retries |-> 0, ds |-> <<>>, res |-> NoRetries]

\* validate_tool(tool_name) on a tool directory
ValidateTool(d) ==
  /\ val' = [called |-> TRUE, d |-> d, res |-> validate_tool(d)]
  /\ UNCHANGED <<rty, notVal>>

\* the tool directories met while retrying: missing, failing in the syntax or
\* the tests phase, making validate_metadata raise, and passing
CompleteDir ==
  [exists |-> TRUE, readable |-> TRUE, skill |-> "complete", meta |-> "valid",
   impl |-> "valid", tests |-> "absent"]

RetryDirs ==
  {MissingDir,
   [CompleteDir EXCEPT !.impl = "syntax_error"],
   [CompleteDir EXCEPT !.tests = "exit_nonzero"],
   [CompleteDir EXCEPT !.meta = "scalar"],
   CompleteDir}

\* validate_with_retry(tool_name, max_retries)
ValidateWithRetry(max_retries, ds) ==
  /\ rty' = [called |-> TRUE, max_retries |-> max_retries, ds |-> ds,
             res |-> validate_with_retry(ds, max_retries)]
  /\ UNCHANGED <<val, notVal>>

(***************************************************************************)
(* CapabilityDetector.  An Intent is kept as what find_matching_tools and  *)
(* _characterize_gap read of it: how many entities and keywords it has.    *)
(* An available tool is kept as the outcome of the substring tests that    *)
(* find_matching_tools makes on its lowercased name: whether it contains   *)
(* intent.category, whether it contains intent.action, and how many of the *)
(* intent's entities and keywords it contains.                             *)
(*                                                                         *)
(* A match score is a Python float: 0.0 plus 0.3, 0.3, 0.2 per entity and  *)
(* 0.05 per keyword, added in that order.  It is kept as the decimal sum   *)
(* h in hundredths with the rounding error e of the float sum against the  *)
(* float literal h/100, in units of 2^-55: the float sum 0.3+0.3+0.2+0.05  *)
(* is 0.8500000000000001, which is above the literal 0.85, and 0.3+4*0.05  *)
(* is 0.49999999999999994, which is below the literal 0.5.                 *)
(***************************************************************************)
RoundingError(n, k, m) ==
  CASE <<n, k, m>> \in {<<1, 0, 5>>, <<1, 3, 0>>} -> -4
    [] <<n, k, m>> \in {<<0, 1, 4>>, <<0, 1, 5>>, <<1, 0, 2>>, <<1, 0, 3>>, <<1, 0, 4>>} -> -2
    [] <<n, k, m>> \in {<<0, 0, 3>>} -> 1
    [] <<n, k, m>> \in {<<0, 2, 4>>, <<0, 2, 5>>, <<0, 3, 0>>, <<0, 3, 1>>,
                        <<1, 1, 2>>, <<1, 1, 3>>, <<1, 2, 3>>, <<1, 2, 4>>,
                        <<2, 0, 2>>, <<2, 0, 3>>, <<2, 0, 4>>, <<2, 1, 1>>, <<2, 1, 2>>} -> 4
    [] <<n, k, m>> \in {<<0, 3, 2>>, <<0, 3, 3>>, <<0, 3, 4>>, <<1, 1, 4>>, <<1, 1, 5>>,
                        <<1, 2, 5>>, <<1, 3, 5>>, <<2, 0, 5>>, <<2, 1, 3>>, <<2, 1, 4>>,
                        <<2, 1, 5>>, <<2, 2, 3>>, <<2, 2, 4>>, <<2, 2, 5>>, <<2, 3, 4>>,
                        <<2, 3, 5>>} -> 8
    [] <<n, k, m>> \in {<<0, 3, 5>>} -> 12
    [] OTHER -> 0

Float(h) == [h |-> h, e |-> 0]

\* a < b, a > b on floats
FloatLess(a, b) == a.h < b.h \/ (a.h = b.h /\ a.e < b.e)
FloatGreater(a, b) == FloatLess(b, a)

\* the score find_matching_tools computes for one tool name
match_score(tool) ==
  LET n == (IF tool.category THEN 1 ELSE 0) + (IF tool.action THEN 1 ELSE 0)
  IN  [h |-> 30 * n + 20 * tool.entities + 5 * tool.keywords,
       e |-> RoundingError(n, tool.entities, tool.keywords)]

Intents == [entities : 0..MaxEntities, keywords : 0..MaxKeywords]

\* the tool names an intent can meet
ToolsFor(intent) ==
  [category : BOOLEAN, action : BOOLEAN,
   entities : 0..intent.entities, keywords : 0..intent.keywords]

\* sorted(matches, key = match_score, reverse = True): stable
RECURSIVE SortedInsert(_, _)
SortedInsert(sorted, m) ==
  IF sorted = <<>> THEN <<m>>
  ELSE IF FloatGreater(m.match_score, Head(sorted).match_score)
       THEN <<m>> \o sorted
       ELSE <<Head(sorted)>> \o SortedInsert(Tail(sorted), m)

RECURSIVE SortedMatches(_)
SortedMatches(matches) ==
  IF matches = <<>> THEN <<>>
  ELSE SortedInsert(SortedMatches(SubSeq(matches, 1, Len(matches) - 1)),
                    matches[Len(matches)])

Match(i, tool) ==
  LET score == match_score(tool)
  IN  [tool |-> i,
       match_score |-> IF FloatGreater(score, Float(100)) THEN Float(100) ELSE score]

\* every tool is a candidate, whatever its score
RECURSIVE matches_unfiltered(_, _)
matches_unfiltered(tools, i) ==
  IF i > Len(tools) THEN <<>>
  ELSE <<Match(i, tools[i])>> \o matches_unfiltered(tools, i + 1)

find_matching_tools_unfiltered(intent, available_tools) ==
  SortedMatches(matches_unfiltered(available_tools, 1))

RECURSIVE matches_from(_, _)
matches_from(tools, i) ==
  IF i > Len(tools) THEN <<>>
  ELSE (IF FloatGreater(match_score(tools[i]), Float(0))
        THEN <<Match(i, tools[i])>> ELSE <<>>) \o matches_from(tools, i + 1)

find_matching_tools(intent, available_tools) ==
  SortedMatches(matches_from(available_tools, 1))

calculate_confidence(matches) ==
  IF matches = <<>> THEN 95
  ELSE LET best_score == matches[1].match_score
       IN  IF FloatLess(best_score, Float(20)) THEN 90
           ELSE IF FloatLess(best_score, Float(50)) THEN 70
           ELSE 50

Gap(gap_type, matches) ==
  [gap_detected |-> TRUE, gap_type |-> gap_type,
   confidence |-> <<calculate_confidence(matches)>>]

\* a best score of 0.5 counted as a close match
characterize_gap_inclusive(intent, matches) ==
  IF matches = <<>> \/ FloatLess(matches[1].match_score, Float(30))
  THEN Gap("domain-gap", matches)
  ELSE IF intent.entities > 1 /\ FloatLess(matches[1].match_score, Float(50))
  THEN Gap("integration-gap", matches)
  ELSE IF ~ FloatLess(matches[1].match_score, Float(50))
  THEN Gap("complexity-gap", matches)
  ELSE Gap("format-gap", matches)

characterize_gap(intent, matches) ==
  IF matches = <<>> \/ FloatLess(matches[1].match_score, Float(30))
  THEN Gap("domain-gap", matches)
  ELSE IF intent.entities > 1 /\ FloatLess(matches[1].match_score, Float(50))
  THEN Gap("integration-gap", matches)
  ELSE IF matches # <<>> /\ FloatGreater(matches[1].match_score, Float(50))
  THEN Gap("complexity-gap", matches)
  ELSE Gap("format-gap", matches)

detect_gap(intent, available_tools) ==
  LET matches == find_matching_tools(intent, available_tools)
  IN  IF matches # <<>> /\ FloatGreater(matches[1].match_score, Float(85))
      THEN [gap_detected |-> FALSE, gap_type |-> None, confidence |-> <<>>]
      ELSE characterize_gap(intent, matches)

NoResult == [gap_detected |-> FALSE, gap_type |-> None, confidence |-> <<>>]

NoRequest ==
  [intent |-> [entities |-> 0, keywords |-> 0], tools |-> <<>>, called |-> FALSE,
   matches |-> <<>>, res |-> NoResult]

\* a request arrives: extract_intent gives its intent
NewRequest(intent) ==
  /\ det' = [NoRequest EXCEPT !.intent = intent]
  /\ UNCHANGED notDet

\* one more tool in available_tools
AddAvailableTool(tool) ==
  /\ Len(det.tools) < Cardinality(Names)
  /\ tool \in ToolsFor(det.intent)
  /\ det' = [NoRequest EXCEPT !.intent = det.intent, !.tools = Append(det.tools, tool)]
  /\ UNCHANGED notDet

DetectGap ==
  /\ ~ det.called
  /\ det' = [det EXCEPT !.called = TRUE,
                        !.matches = find_matching_tools(det.intent, det.tools),
                        !.res = detect_gap(det.intent, det.tools)]
  /\ UNCHANGED notDet

(***************************************************************************)
(* cli.py.  Every run of main() is a process of its own: get_loader() and  *)
(* get_orchestrator() build a new ToolLoader and a new orchestrator, and   *)
(* only the skills directory and the creation log file outlive the run.    *)
(* argv is sys.argv[1:]: the command, and the tool name or the request     *)
(* (None when it is not given).                                            *)
(***************************************************************************)
Commands == {"list", "load", "unload", "reload", "info", "detect", "create",
             "validate", "watch", "stats"}
WithArgument == {"load", "unload", "reload", "info", "detect", "create", "validate"}

NoArgv == [command |-> None, arg |-> None]
Argvs == {NoArgv} \cup [command : Commands \cup {"STATS", "frob"}, arg : Names \cup {None}]

\* sys.argv[1].lower()
Lower(command) == IF command = "STATS" THEN "stats" ELSE command

\* ToolLoader()
NewLoader ==
  [loaded_tools |-> [n \in Names |-> 0], tool_versions |-> [n \in Names |-> <<>>],
   heap |-> <<>>, load_log |-> <<>>, ret |-> FALSE, attempts |-> <<>>]

\* how a cmd_ function ends: the value it returns (<<>> for None) or an
\* exception, and whether the operation it ran reported success
Returns(code, reported) == [raised |-> FALSE, ret |-> <<code>>, reported |-> reported]
ReturnsNone(reported) == [raised |-> FALSE, ret |-> <<>>, reported |-> reported]
Raises(reported) == [raised |-> TRUE, ret |-> <<>>, reported |-> reported]

cmd_list == ReturnsNone(TRUE)

cmd_load(rootv, fsv, tool_name) ==
  LET success == load_tool(NewLoader, rootv, fsv, tool_name, None).ret
  IN  IF success THEN Returns(0, TRUE) ELSE Returns(1, FALSE)

cmd_unload(tool_name) ==
  LET success == unload_tool(NewLoader, tool_name).ret
  IN  IF success THEN Returns(0, TRUE) ELSE Returns(1, FALSE)

cmd_reload(rootv, fsv, tool_name) ==
  LET success == reload_tool(NewLoader, rootv, fsv, tool_name).ret
  IN  IF success THEN Returns(0, TRUE) ELSE Returns(1, FALSE)

cmd_info(tool_name) ==
  LET info == get_tool_info(NewLoader, tool_name)
  IN  IF info # NoToolInfo THEN Returns(0, TRUE) ELSE Returns(1, FALSE)

cmd_detect == Returns(0, TRUE)

\* result["tool_id"] is read on success: a KeyError when the result has none
cmd_create(result) ==
  IF result.raised THEN Raises(FALSE)
  ELSE IF result.success
       THEN IF result.tool_id = NoId THEN Raises(TRUE) ELSE Returns(0, TRUE)
       ELSE Returns(1, FALSE)

\* results["validations"] is read: a KeyError when the directory is missing
cmd_validate(results) ==
  IF results.raised \/ results.error # None THEN Raises(FALSE)
  ELSE Returns(IF results.all_passed THEN 0 ELSE 1, results.all_passed)

\* watch_loop runs until Ctrl+C
cmd_watch == Returns(0, TRUE)

cmd_stats == Returns(0, TRUE)

NoMain == [argv |-> NoArgv, invoked |-> FALSE, reported |-> FALSE, raised |-> FALSE,
           code |-> 0, ran |-> FALSE]

\* main(), and the exit code sys.exit(main()) gives the process
main(argv, rootv, fsv, result, results) ==
  LET command == Lower(argv.command)
      r == CASE command = "list" -> cmd_list
             [] command = "load" -> cmd_load(rootv, fsv, argv.arg)
             [] command = "unload" -> cmd_unload(argv.arg)
             [] command = "reload" -> cmd_reload(rootv, fsv, argv.arg)
             [] command = "info" -> cmd_info(argv.arg)
             [] command = "detect" -> cmd_detect
             [] command = "create" -> cmd_create(result)
             [] command = "validate" -> cmd_validate(results)
             [] command = "watch" -> cmd_watch
             [] command = "stats" -> cmd_stats
      usage == [NoMain EXCEPT !.argv = argv, !.code = 1, !.ran = TRUE]
  IN  IF argv = NoArgv THEN usage
      ELSE IF command \in WithArgument /\ argv.arg = None THEN usage
      ELSE IF command \notin Commands THEN usage
      ELSE [argv |-> argv, invoked |-> TRUE, reported |-> r.reported,
            raised |-> r.raised,
            code |-> IF r.raised THEN 1 ELSE IF r.ret = <<>> THEN 0 ELSE r.ret[1],
            ran |-> TRUE]

\* what decides a create_tool_on_demand(request, auto_approve = False) call
CreateInputs ==
  [gap : BOOLEAN, name : Names \ LoaderNames, gap_type : {"domain-gap"},
   answer1 : Answers, gen : GenOutcomes, valid : BOOLEAN, answer2 : Answers]
NoInputs ==
  [gap |-> FALSE, name |-> "b", gap_type |-> "domain-gap", answer1 |-> "n",
   gen |-> "ok", valid |-> FALSE, answer2 |-> "n"]

\* create_tool_on_demand in a new process: the result, and the skills
\* directory and the log file it leaves
create_tool_on_demand(rootv, fsv, file, i) ==
  LET r == FirstSteps([NoRun EXCEPT !.n = 1], FALSE, i.gap, i.name, i.gap_type,
                      i.answer1, i.gen, i.valid, i.answer2)
      generated == r.generation # None
      fs1 == IF generated THEN [fsv EXCEPT ![i.name] = create_tool(@, i.gen).dir] ELSE fsv
      root1 == IF generated /\ i.gen # "mkdir_raises" THEN TRUE ELSE rootv
      load_success == load_tool(NewLoader, root1, fs1, i.name, None).ret
      added == add_entry(load_log_file(file), CreatedInfo(r, load_success))
  IN  [result |-> IF r.finished THEN r
                  ELSE [Returned(r, TRUE, None)
                          EXCEPT !.hotreload = BoolStr(load_success),
                                 !.attempts = IF load_success THEN 1 ELSE LoadAttempts,
                                 !.tool_id = added.tool_id],
       root_exists |-> root1, fs |-> fs1,
       log_file |-> IF r.finished THEN file ELSE save_log(added.data)]

\* one run of `python cli.py <argv>`; i decides the create_tool_on_demand
\* call of `create` and d is the directory `validate` is run on
Main(argv, i, d) ==
  LET creating == Lower(argv.command) = "create" /\ argv.arg # None
      made == create_tool_on_demand(root_exists, fs, log_file, i)
  IN  /\ creating => Len(load_log_file(log_file).tools) < MaxEntries
      /\ cli' = main(argv, root_exists, fs, made.result, validate_tool(d))
      /\ root_exists' = IF creating THEN made.root_exists ELSE root_exists
      /\ fs' = IF creating THEN made.fs ELSE fs
      /\ log_file' = IF creating THEN made.log_file ELSE log_file
      /\ UNCHANGED <<loaderVars, log_data, log_pc, pending, returned, opened, orchVars,
                     watchVars, fileVars, valVars, detVars, laterVars>>

(***************************************************************************)
(* ToolGenerator.create_tool called directly on the skills directory.      *)
(***************************************************************************)
GeneratedFiles == <<"SKILL.md", "metadata.json", "tests.py", "README.md">>

\* the files a create_tool call has written when it ends: those before the
\* write that failed
FilesWritten(outcome) ==
  CASE outcome = "mkdir_raises" -> <<>>
    [] outcome = "skill_fails" -> <<>>
    [] outcome = "meta_fails" -> SubSeq(GeneratedFiles, 1, 1)
    [] outcome = "tests_fails" -> SubSeq(GeneratedFiles, 1, 2)
    [] outcome = "readme_fails" -> SubSeq(GeneratedFiles, 1, 3)
    [] outcome = "ok" -> GeneratedFiles

NotGenerated ==
  [called |-> FALSE, name |-> None, outcome |-> None, before |-> NoDir,
   after |-> NoDir, ret |-> None, written |-> <<>>]

CreateTool(name, outcome) ==
  LET made == create_tool(fs[name], outcome)
  IN  /\ tgen' = [called |-> TRUE, name |-> name, outcome |-> outcome,
                  before |-> fs[name], after |-> made.dir, ret |-> made.ret,
                  written |-> FilesWritten(outcome)]
      /\ fs' = [fs EXCEPT ![name] = made.dir]
      /\ root_exists' = IF outcome # "mkdir_raises" THEN TRUE ELSE root_exists
      /\ UNCHANGED <<notFs, dreq, emb, cons, lemb>>

(***************************************************************************)
(* CapabilityDetector._derive_requirements.  A formatted string is kept as *)
(* the sequence of its parts.                                              *)
(***************************************************************************)
EntityNames == {"PDF", "CSV", "XML", "JSON", "API", "DataFrame"}
Actions == {"read", "process"}
Categories == {"general", "data-transform"}
Classified == {"domain-gap", "integration-gap", "complexity-gap", "format-gap"}

\* entity.lower()
entity_lower(entity) ==
  CASE entity = "PDF" -> "pdf" [] entity = "CSV" -> "csv" [] entity = "XML" -> "xml"
    [] entity = "JSON" -> "json" [] entity = "API" -> "api"
    [] entity = "DataFrame" -> "dataframe"

\* the entity lists of an Intent: extract_intent returns list(set(entities))
EntityLists ==
  {s \in UNION {[1..k -> EntityNames] : k \in 0..MaxList} :
     \A i, j \in 1..Len(s) : s[i] = s[j] => i = j}

DerivedIntents == [category : Categories, action : Actions, entities : EntityLists]

\* seq[:n]
Slice(seq, n) == SubSeq(seq, 1, Min(n, Len(seq)))

\* the core functions before the common ones are added (lines 264-271)
named_functions(intent) ==
  Slice(IF intent.entities # <<>>
        THEN [i \in 1..Len(intent.entities) |->
                <<intent.action, "_", entity_lower(intent.entities[i])>>]
        ELSE << <<intent.action, "_", "data">>, <<"process", "_", intent.category>> >>,
        MaxFunctions)

derive_requirements(intent, gap_type) ==
  [core_functions |->
     IF gap_type # "format-gap"
     THEN Append(named_functions(intent), <<"validate_input">>)
     ELSE named_functions(intent),
   input_format |-> "dict",
   output_format |-> "dict",
   dependencies |-> Slice(intent.entities, MaxDependencies),
   success_criteria |->
     IF intent.entities # <<>>
     THEN [i \in 1..Min(MaxCriteria, Len(intent.entities)) |->
             <<"Successfully ", intent.action, "s ", intent.entities[i]>>]
     ELSE << <<"Handles ", intent.category, " operations correctly">> >>]

NotDerived ==
  [called |-> FALSE, intent |-> [category |-> "general", action |-> "process",
                                 entities |-> <<>>],
   gap_type |-> None, requirements |-> <<>>]

\* characterize_gap asks for the requirements of the gap it has classified
DeriveRequirements(intent, gap_type) ==
  /\ ~ dreq.called
  /\ dreq' = [called |-> TRUE, intent |-> intent, gap_type |-> gap_type,
              requirements |-> derive_requirements(intent, gap_type)]
  /\ UNCHANGED <<settled, tgen, emb, cons, lemb>>

\* the next request
ForgetRequirements ==
  /\ dreq.called
  /\ dreq' = NotDerived
  /\ UNCHANGED <<settled, tgen, emb, cons, lemb>>
(***************************************************************************)
(* LocalEmbeddingService (skills/local-embeddings/local_embeddings.py).    *)
(* A vector is kept as the text it embeds and its L2 norm.  The model's    *)
(* output for a text has the norm the model gives it, and norm 1 when      *)
(* encode is asked to normalize.  The cache is the directory of .npy       *)
(* files, one per hash of model name and text.                             *)
(***************************************************************************)
Texts == {"t1", "t2"}

\* the norm of the model's output: one text whose raw embedding has unit
\* length already, one whose raw embedding has not
RawNorm(text) == IF text = "t1" THEN 1 ELSE 5

Vector(text, norm) == [text |-> text, norm |-> norm]
NoVector == [text |-> None, norm |-> 0]

\* self.model.encode(text, normalize_embeddings = normalize)
encode(text, normalize) == Vector(text, IF normalize THEN 1 ELSE RawNorm(text))

\* _hash_text: the key is made of the model name and the text
hash_text(text) == text

get_cached(cache, text) == cache[hash_text(text)]
set_cached(cache, text, embedding) == [cache EXCEPT ![hash_text(text)] = embedding]

embed(cache, text, normalize, use_cache) ==
  LET cached_emb == IF use_cache THEN get_cached(cache, text) ELSE NoVector
      cached == cached_emb # NoVector
      embedding == IF cached THEN cached_emb ELSE encode(text, normalize)
  IN  [embedding |-> embedding,
       cache |-> IF ~cached /\ use_cache THEN set_cached(cache, text, embedding)
                 ELSE cache]

\* embed_batch from position i on: the rows, and the cache written
RECURSIVE EmbedRows(_, _, _, _)
EmbedRows(cache, texts, normalize, i) ==
  IF i > Len(texts) THEN [embeddings |-> <<>>, cache |-> cache]
  ELSE LET cached_emb == get_cached(cache, texts[i])
           emb_i == IF cached_emb # NoVector THEN cached_emb
                    ELSE encode(texts[i], normalize)
           rest == EmbedRows(cache, texts, normalize, i + 1)
       IN  [embeddings |-> <<emb_i>> \o rest.embeddings,
            cache |-> IF cached_emb # NoVector THEN rest.cache
                      ELSE set_cached(rest.cache, texts[i], emb_i)]

embed_batch(cache, texts, normalize) == EmbedRows(cache, texts, normalize, 1)

Batches == UNION {[1..k -> Texts] : k \in 0..MaxBatch}

NewService ==
  [cache |-> [t \in Texts |-> NoVector], called |-> FALSE, texts |-> <<>>,
   normalize |-> FALSE, use_cache |-> FALSE, embeddings |-> <<>>, first |-> <<>>]

\* first: what the call before returned when it had the same arguments
Embed(text, normalize, use_cache) ==
  LET r == embed(emb.cache, text, normalize, use_cache)
  IN  /\ emb' = [cache |-> r.cache, called |-> TRUE, texts |-> <<text>>,
                 normalize |-> normalize, use_cache |-> use_cache,
                 embeddings |-> <<r.embedding>>,
                 first |-> IF emb.called /\ emb.texts = <<text>>
                              /\ emb.normalize = normalize
                              /\ emb.use_cache = use_cache
                           THEN emb.embeddings ELSE <<>>]
      /\ UNCHANGED <<settled, tgen, dreq, cons, lemb>>

EmbedBatch(texts, normalize) ==
  LET r == embed_batch(emb.cache, texts, normalize)
  IN  /\ emb' = [cache |-> r.cache, called |-> TRUE, texts |-> texts,
                 normalize |-> normalize, use_cache |-> TRUE,
                 embeddings |-> r.embeddings,
                 first |-> IF emb.called /\ emb.texts = texts
                              /\ emb.normalize = normalize /\ emb.use_cache
                           THEN emb.embeddings ELSE <<>>]
      /\ UNCHANGED <<settled, tgen, dreq, cons, lemb>>

ClearCache ==
  /\ emb' = [NewService EXCEPT !.cache = [t \in Texts |-> NoVector]]
  /\ emb' # emb
  /\ UNCHANGED <<settled, tgen, dreq, cons, lemb>>
(***************************************************************************)
(* Python floats (IEEE 754 binary64) for the consensus engine.  A float is *)
(* kept exactly: a sign, a 53-bit significand m and an exponent e, for the *)
(* value m * 2^e; 0.0 has the empty significand.  A significand, and every *)
(* exact intermediate result, is a natural number written in limbs of 15   *)
(* bits, the lowest first.  Every operation computes the exact result and  *)
(* rounds it to the nearest float, ties to the even significand, as the    *)
(* hardware does; no value met here overflows or is subnormal.             *)
(***************************************************************************)
Base == 2^15

RECURSIVE Trim(_)
Trim(a) ==
  IF a = <<>> THEN a
  ELSE IF a[Len(a)] = 0 THEN Trim(SubSeq(a, 1, Len(a) - 1)) ELSE a

Limb(a, i) == IF i <= Len(a) THEN a[i] ELSE 0

RECURSIVE AddFrom(_, _, _, _)
AddFrom(a, b, i, carry) ==
  IF i > Len(a) /\ i > Len(b)
  THEN IF carry = 0 THEN <<>> ELSE <<carry>>
  ELSE LET x == Limb(a, i) + Limb(b, i) + carry
       IN  <<x % Base>> \o AddFrom(a, b, i + 1, x \div Base)

BigAdd(a, b) == AddFrom(a, b, 1, 0)

RECURSIVE SubFrom(_, _, _, _)
SubFrom(a, b, i, borrow) ==
  IF i > Len(a) THEN <<>>
  ELSE LET x == Limb(a, i) - Limb(b, i) - borrow
       IN  <<IF x < 0 THEN x + Base ELSE x>>
             \o SubFrom(a, b, i + 1, IF x < 0 THEN 1 ELSE 0)

\* a - b for a >= b
BigSub(a, b) == Trim(SubFrom(a, b, 1, 0))

RECURSIVE CmpFrom(_, _, _)
CmpFrom(a, b, i) ==
  IF i = 0 THEN 0
  ELSE IF Limb(a, i) < Limb(b, i) THEN -1
  ELSE IF Limb(a, i) > Limb(b, i) THEN 1
  ELSE CmpFrom(a, b, i - 1)

\* -1, 0, 1 as a is below, equal to or above b
BigCmp(a, b) == CmpFrom(a, b, IF Len(a) > Len(b) THEN Len(a) ELSE Len(b))

RECURSIVE MulSmallFrom(_, _, _, _)
MulSmallFrom(a, k, i, carry) ==
  IF i > Len(a)
  THEN IF carry = 0 THEN <<>> ELSE <<carry>>
  ELSE LET x == a[i] * k + carry
       IN  <<x % Base>> \o MulSmallFrom(a, k, i + 1, x \div Base)

\* a * k for k < Base
BigMulSmall(a, k) == Trim(MulSmallFrom(a, k, 1, 0))

ShiftLimbs(a, n) == IF a = <<>> THEN a ELSE [i \in 1..n |-> 0] \o a

RECURSIVE MulFrom(_, _, _)
MulFrom(a, b, j) ==
  IF j > Len(b) THEN <<>>
  ELSE BigAdd(ShiftLimbs(BigMulSmall(a, b[j]), j - 1), MulFrom(a, b, j + 1))

BigMul(a, b) == MulFrom(a, b, 1)

\* a * 2^k
BigShl(a, k) == ShiftLimbs(BigMulSmall(a, 2^(k % 15)), k \div 15)

\* a \div 2^k
BigShr(a, k) ==
  LET high == SubSeq(a, k \div 15 + 1, Len(a))
      s == k % 15
  IN  Trim([i \in 1..Len(high) |->
              high[i] \div 2^s + (Limb(high, i + 1) % 2^s) * 2^(15 - s)])

RECURSIVE SmallBitLen(_)
SmallBitLen(x) == IF x = 0 THEN 0 ELSE 1 + SmallBitLen(x \div 2)

BitLen(a) == IF a = <<>> THEN 0 ELSE (Len(a) - 1) * 15 + SmallBitLen(a[Len(a)])

\* the largest d in lo..hi with b * d <= r
RECURSIVE DigitOf(_, _, _, _)
DigitOf(r, b, lo, hi) ==
  IF lo = hi THEN lo
  ELSE LET mid == (lo + hi + 1) \div 2
       IN  IF BigCmp(BigMulSmall(b, mid), r) <= 0
           THEN DigitOf(r, b, mid, hi)
           ELSE DigitOf(r, b, lo, mid - 1)

\* long division: n more limbs of the quotient q, from the remainder r < b;
\* r2 is r with one more limb and d the next limb of the quotient
RECURSIVE DivSteps(_, _, _, _)
DivNext(r2, b, n, q, d) ==
  DivSteps(BigSub(r2, BigMulSmall(b, d)), b, n - 1, Trim(<<d>> \o q))

DivDigit(r2, b, n, q) == DivNext(r2, b, n, q, DigitOf(r2, b, 0, Base - 1))

DivSteps(r, b, n, q) ==
  IF n = 0 THEN [q |-> q, r |-> r] ELSE DivDigit(ShiftLimbs(r, 1), b, n, q)

DivFirst(a, b, d) == DivSteps(BigSub(a, BigMulSmall(b, d)), b, 4, Trim(<<d>>))

\* a * 2^60 \div b and the remainder, for a < 2 * b
BigDivMod(a, b) == DivFirst(a, b, DigitOf(a, b, 0, 1))

Zero == [neg |-> FALSE, m |-> <<>>, e |-> 0]

\* q with one more bit dropped when rounding up has carried into bit 54
Carried(neg, q, e) ==
  IF BitLen(q) > 53
  THEN [neg |-> neg, m |-> BigShr(q, 1), e |-> e + 1]
  ELSE [neg |-> neg, m |-> q, e |-> e]

\* q, or q + 1 when what was dropped is above the half (c > 0) or is the
\* half (c = 0) and q is odd
RoundedUp(q, c) ==
  IF c > 0 \/ (c = 0 /\ q[1] % 2 = 1) THEN BigAdd(q, <<1>>) ELSE q

\* m of more than 53 bits: q is m without its k lowest bits
Nearest(neg, m, e, k, q) ==
  Carried(neg,
          RoundedUp(q, BigCmp(BigSub(m, BigShl(q, k)), BigShl(<<1>>, k - 1))),
          e + k)

\* m # 0 of n bits
Normal(neg, m, e, n) ==
  IF n <= 53
  THEN [neg |-> neg, m |-> BigShl(m, 53 - n), e |-> e - (53 - n)]
  ELSE Nearest(neg, m, e, n - 53, BigShr(m, n - 53))

\* the float nearest to m * 2^e, ties to even
Round(neg, m, e) == IF m = <<>> THEN Zero ELSE Normal(neg, m, e, BitLen(m))

\* float(n) for an integer 0 <= n < Base
FromInt(n) == Round(FALSE, Trim(<<n>>), 0)

FNeg(a) == IF a.m = <<>> THEN a ELSE [a EXCEPT !.neg = ~@]

\* a * b
FMul(a, b) ==
  IF a.m = <<>> \/ b.m = <<>> THEN Zero
  ELSE Round(a.neg # b.neg, BigMul(a.m, b.m), a.e + b.e)

\* x * 2^e signed as a plus y * 2^e signed as b; c compares x with y
SignedSum(aneg, bneg, x, y, e, c) ==
  Round(IF aneg = bneg \/ c > 0 THEN aneg ELSE bneg,
        IF aneg = bneg THEN BigAdd(x, y)
        ELSE IF c > 0 THEN BigSub(x, y) ELSE BigSub(y, x),
        e)

AlignedSum(aneg, bneg, x, y, e) == SignedSum(aneg, bneg, x, y, e, BigCmp(x, y))

ExactSum(a, b, e) ==
  AlignedSum(a.neg, b.neg, BigShl(a.m, a.e - e), BigShl(b.m, b.e - e), e)

\* a + b
FAdd(a, b) ==
  IF a.m = <<>> THEN b
  ELSE IF b.m = <<>> THEN a
  ELSE ExactSum(a, b, IF a.e < b.e THEN a.e ELSE b.e)

\* a - b
FSub(a, b) == FAdd(a, FNeg(b))

\* the quotient d.q with one more bit for a remainder d.r # 0
RoundedQuotient(neg, d, e) ==
  Round(neg, BigAdd(BigShl(d.q, 1), IF d.r = <<>> THEN <<>> ELSE <<1>>), e)

\* a / b for b # 0: the quotient of the significands to 60 binary places
FDiv(a, b) ==
  IF a.m = <<>> THEN Zero
  ELSE RoundedQuotient(a.neg # b.neg, BigDivMod(a.m, b.m), a.e - b.e - 61)

\* -1, 0, 1 as a is negative, zero or positive
FSign(a) == IF a.m = <<>> THEN 0 ELSE IF a.neg THEN -1 ELSE 1

\* a < b
FLess(a, b) == FSign(FSub(a, b)) < 0

(***************************************************************************)
(* ConsensusEngine (consensus_engine.py).  A confidence and a calibration  *)
(* factor are given as a number of tenths, for the float literal k/10.     *)
(***************************************************************************)
Decisions == {"YES", "NO", "ABSTAIN"}
Tenths == {1, 2, 3, 6}
Calibrations == {7, 10, 20}

\* the float literal with k tenths
FloatOf == [k \in Tenths \cup Calibrations |-> FDiv(FromInt(k), FromInt(10))]
One == FromInt(1)

Vote(decision, confidence) == [decision |-> decision, confidence |-> confidence]

\* Vote.weight: decision.value * confidence, 0.0 for ABSTAIN
weight(vote) ==
  CASE vote.decision = "ABSTAIN" -> Zero
    [] vote.decision = "YES" -> vote.confidence
    [] vote.decision = "NO" -> FNeg(vote.confidence)

\* min(a, b), max(a, b) of Python: the first argument unless the second is
\* smaller, or larger
FMin(a, b) == IF FLess(b, a) THEN b ELSE a
FMax(a, b) == IF FLess(a, b) THEN b ELSE a

\* _calibrate_votes with every product kept as it is
calibrate_votes_uncapped(votes, calibration) ==
  IF calibration = One THEN votes
  ELSE [i \in 1..Len(votes) |->
          Vote(votes[i].decision, FMul(votes[i].confidence, calibration))]

calibrate_votes(votes, calibration) ==
  IF calibration = One THEN votes
  ELSE [i \in 1..Len(votes) |->
          Vote(votes[i].decision,
               FMin(One, FMul(votes[i].confidence, calibration)))]

\* sum(...) of floats: from 0, one addition per term, left to right
RECURSIVE FSum(_)
FSum(terms) ==
  IF terms = <<>> THEN Zero
  ELSE FAdd(FSum(SubSeq(terms, 1, Len(terms) - 1)), terms[Len(terms)])

weighted_sum(votes) == FSum([i \in 1..Len(votes) |-> weight(votes[i])])

decide_from_score(score) ==
  IF FSign(score) > 0 THEN "YES"
  ELSE IF FSign(score) < 0 THEN "NO"
  ELSE "ABSTAIN"

\* sum(v.confidence for v in votes if v.decision == decision)
WeightOf(votes, decision) ==
  LET of == SelectSeq(votes, LAMBDA v : v.decision = decision)
  IN  FSum([i \in 1..Len(of) |-> of[i].confidence])

\* max(0.0, min(1.0, (max_weight - (total_weight - max_weight)) / total_weight))
clamped_confidence(total_weight, max_weight) ==
  IF total_weight = Zero THEN Zero
  ELSE FMax(Zero,
            FMin(One, FDiv(FSub(max_weight, FSub(total_weight, max_weight)),
                           total_weight)))

confidence_of_weights(yes_weight, no_weight) ==
  clamped_confidence(FAdd(yes_weight, no_weight), FMax(yes_weight, no_weight))

\* ConsensusEngine._calculate_confidence
engine_calculate_confidence(votes) ==
  IF votes = <<>> THEN Zero
  ELSE confidence_of_weights(WeightOf(votes, "YES"), WeightOf(votes, "NO"))

count_votes(votes) ==
  [d \in Decisions |-> Len(SelectSeq(votes, LAMBDA v : v.decision = d))]

NoConsensus ==
  [final_decision |-> None, weighted_score |-> Zero, confidence_level |-> Zero,
   vote_breakdown |-> [d \in Decisions |-> 0]]

\* collect_votes: <<>> when it raises ValueError, else the ConsensusResult
ConsensusResult(score, confidence, breakdown) ==
  [final_decision |-> decide_from_score(score), weighted_score |-> score,
   confidence_level |-> confidence, vote_breakdown |-> breakdown]

consensus_of(votes, calibrated_votes) ==
  ConsensusResult(weighted_sum(calibrated_votes),
                  engine_calculate_confidence(calibrated_votes),
                  count_votes(votes))

collect_votes(votes, calibration) ==
  IF votes = <<>> THEN <<>>
  ELSE << consensus_of(votes, calibrate_votes(votes, calibration)) >>

\* the votes as they are handed to collect_votes
Votes(given) ==
  [i \in 1..Len(given) |-> Vote(given[i].decision, FloatOf[given[i].confidence])]

\* the votes agents cast; the confidence of an abstention enters no sum, and
\* one value stands for it
AgentVotes ==
  {v \in [decision : Decisions, confidence : Tenths] :
     v.decision = "ABSTAIN" => v.confidence = 3}

NotCollected ==
  [calibration |-> 10, votes |-> <<>>, called |-> FALSE, raised |-> FALSE,
   result |-> NoConsensus]

\* ConsensusEngine(confidence_calibration)
NewEngine(calibration) ==
  /\ cons' = [NotCollected EXCEPT !.calibration = calibration]
  /\ UNCHANGED <<settled, tgen, dreq, emb, lemb>>

\* one more agent has voted
AddVote(decision, confidence) ==
  /\ ~ cons.called
  /\ Len(cons.votes) < MaxVotes
  /\ cons' = [cons EXCEPT !.votes = Append(@, Vote(decision, confidence))]
  /\ UNCHANGED <<settled, tgen, dreq, emb, lemb>>

\* the engine after a call of collect_votes that gave r
Collected(r) ==
  [cons EXCEPT !.called = TRUE, !.raised = (r = <<>>),
               !.result = IF r = <<>> THEN NoConsensus ELSE r[1]]

CollectVotes ==
  /\ ~ cons.called
  /\ cons' = Collected(collect_votes(Votes(cons.votes), FloatOf[cons.calibration]))
  /\ UNCHANGED <<settled, tgen, dreq, emb, lemb>>
(***************************************************************************)
(* LocalEmbedder (local_embeddings.py) with enable_caching and a local     *)
(* tier.  A text is the pair of its first 50 characters and the rest; an   *)
(* embedding is kept as the text it embeds.                                *)
(***************************************************************************)
Heads == {"p", "q", "r"}
LongTexts == {<<"p", "">>, <<"p", "x">>, <<"q", "">>, <<"r", "">>}

\* lists of distinct texts
TextLists ==
  {s \in UNION {[1..k -> LongTexts] : k \in 0..MaxTexts} :
     \A i, j \in 1..Len(s) : s[i] = s[j] => i = j}

\* f"{tier}:{t[:50]}", for one tier
cache_key(t) == t[1]

\* model.encode
model_encode(t) == <<t>>

\* an entry of [None] * len(texts) that no assignment has replaced
Unset == <<>>

\* the positions, in order, whose key is in the cache or is not
Positions(cache, texts, hit) ==
  SelectSeq([i \in 1..Len(texts) |-> i],
            LAMBDA i : (cache[cache_key(texts[i])] # Unset) = hit)

\* LocalEmbedder.embed on a list: the returned rows and the cache it leaves
embed_texts(cache, texts) ==
  LET cached_at == Positions(cache, texts, TRUE)
      cached == [k \in 1..Len(cached_at) |-> cache[cache_key(texts[cached_at[k]])]]
      uncached_indices == Positions(cache, texts, FALSE)
      uncached_embeds == [k \in 1..Len(uncached_indices) |->
                            model_encode(texts[uncached_indices[k]])]
      \* the last position of uncached_indices holding index i, 0 if none
      PosOf(i) == LET at == {k \in 1..Len(uncached_indices) : uncached_indices[k] = i}
                  IN  IF at = {} THEN 0 ELSE CHOOSE k \in at : \A l \in at : l <= k
      \* the last uncached index with the key, 0 if none
      LastWith(key) ==
        LET at == {k \in 1..Len(uncached_indices) :
                     cache_key(texts[uncached_indices[k]]) = key}
        IN  IF at = {} THEN 0 ELSE CHOOSE k \in at : \A l \in at : l <= k
      embeddings == [i \in 1..Len(texts) |->
                       IF PosOf(i) # 0 THEN uncached_embeds[PosOf(i)]
                       ELSE IF i <= Len(cached) THEN cached[i]
                       ELSE Unset]
  IN  [embeddings |-> embeddings,
       cache |-> [key \in Heads |->
                    IF LastWith(key) # 0 THEN uncached_embeds[LastWith(key)]
                    ELSE cache[key]]]

NewEmbedder ==
  [cache |-> [key \in Heads |-> Unset], called |-> FALSE, texts |-> <<>>,
   before |-> [key \in Heads |-> Unset], embeddings |-> <<>>, raised |-> FALSE]

\* LocalEmbedder(...)
NewLocalEmbedder ==
  /\ lemb' = NewEmbedder
  /\ UNCHANGED <<settled, tgen, dreq, emb, cons>>

\* embed(texts).  np.array over rows of which one is still None gives an
\* array of objects or raises, with the version of numpy; the exception is
\* re-raised as LocalEmbeddingError after the cache has been written
EmbedTexts(texts, raises) ==
  LET r == embed_texts(lemb.cache, texts)
      unset == \E i \in 1..Len(texts) : r.embeddings[i] = Unset
  IN  /\ raises => unset
      /\ lemb' = [cache |-> r.cache, called |-> TRUE, texts |-> texts,
                  before |-> lemb.cache,
                  embeddings |-> IF raises THEN <<>> ELSE r.embeddings,
                  raised |-> raises]
      /\ UNCHANGED <<settled, tgen, dreq, emb, cons>>

vars == <<fsVars, loaderVars, logVars, orchVars, watchVars, otherVars>>

Init ==
  /\ root_exists = TRUE
  /\ fs = [n \in Names |-> NoDir]
  /\ loaded_tools = [n \in Names |-> 0]
  /\ tool_versions = [n \in Names |-> <<>>]
  /\ heap = <<>>
  /\ load_log = <<>>
  /\ last = NoCall
  /\ cycle = NoCycle
  /\ log_file = NoLogFile
  /\ log_data = [w \in Writers |-> DefaultLog]
  /\ log_pc = [w \in Writers |-> "closed"]
  /\ pending = [w \in Writers |-> NoId]
  /\ returned = <<>>
  /\ opened = [w \in Writers |-> NotOpened]
  /\ orch_root = None
  /\ other_fs = [n \in Names |-> NoDir]
  /\ orch_pc = "none"
  /\ run = NoRun
  /\ watch_on = FALSE
  /\ watchers = <<>>
  /\ known_tools = {}
  /\ callbacks = NoCallbacks
  /\ chk = NoScan
  /\ fwatch = NoFileWatcher
  /\ hc = NoCalls
  /\ val = NotValidated
  /\ rty = NotRetried
  /\ det = NoRequest
  /\ cli = NoMain
  /\ tgen = NotGenerated
  /\ dreq = NotDerived
  /\ emb = NewService
  /\ cons = NotCollected
  /\ lemb = NewEmbedder

NextLoader ==
  \/ \E n \in LoaderNames, v \in ReqVersions : LoadTool(n, v)
  \/ \E n \in LoaderNames : UnloadTool(n)
  \/ \E n \in LoaderNames : ReloadTool(n)
  \/ \E n \in LoaderNames, v \in ReqVersions : LoadWithFallback(n, v)
  \/ \E n \in LoaderNames, s \in SkillContents \cup {""}, m \in MetaContents \cup {""},
        i \in ImplContents \cup {""} : WriteTool(n, s, m, i)
  \/ \E n \in LoaderNames : RemoveTool(n)
  \/ RemoveRoot
  \/ CreateRoot

SpecLoader == Init /\ [][NextLoader]_vars

NextLog ==
  \/ \E w \in Writers : OpenLog(w)
  \/ \E w \in Writers, t \in ToolInfos : AddEntry(w, t)
  \/ \E w \in Writers : SaveLog(w)

SpecLog == Init /\ [][NextLog]_vars


NextOrch ==
  \/ \E root \in Roots : NewOrchestrator(root)
  \/ \E auto, gap, valid \in BOOLEAN, n \in LoaderNames, g \in GapTypes,
        a1, a2 \in Answers, gen \in GenOutcomes :
        CreateToolOnDemand(auto, gap, n, g, a1, gen, valid, a2)
  \/ HotReloadAttempt
  \/ \E n \in LoaderNames : WriteTool(n, "doc", "", "")
  \/ \E n \in LoaderNames : RemoveTool(n)

SpecOrch == Init /\ [][NextOrch]_vars

\* the orchestrator with every pass of the hot-reload loop eventually made: a
\* pass sleeps one second and calls load_tool, and waits for nothing else.
\* This is WF_vars(HotReloadAttempt) written out, the pass being enabled
\* exactly when the call is in the loop: either the call is out of the loop
\* again and again or passes are made again and again
SpecOrchFair ==
  /\ SpecOrch
  /\ \/ []<>(orch_pc # "hotreload")
     \/ []<><<HotReloadAttempt>>_vars

WatchEvents == Events \cup {"tool_renamed"}
MTimes == 1..MaxTime

NextWatcher ==
  \/ NewToolWatcher
  \/ \E e \in WatchEvents : On(e, "returns")
  \/ Check
  \/ \E n \in Names : WriteTool(n, "", "", "")
  \/ \E c \in SkillContents \cup {"doc2"}, mt \in MTimes : WriteFile("a", "skill", c, mt)
  \/ DeleteFile("a", "skill")
  \/ \E n \in Names : RemoveTool(n)
  \/ RemoveRoot
  \/ CreateRoot

SpecWatcher == Init /\ [][NextWatcher]_vars

\* the watcher with subscribers that may raise; the file system gains and
\* loses tools and one watched file, which fires each of the three events
NextCallbacks ==
  \/ NewToolWatcher
  \/ \E e \in Events, cb \in CallbackKinds : On(e, cb)
  \/ Check
  \/ \E n \in Names : WriteTool(n, "", "", "")
  \/ WriteFile("a", "skill", "doc", 1)
  \/ DeleteFile("a", "skill")
  \/ \E n \in Names : RemoveTool(n)

SpecCallbacks == Init /\ [][NextCallbacks]_vars

NextFile ==
  \/ NewFileWatcher
  \/ HasChanged
  \/ WriteTool("a", "", "", "")
  \/ \E c \in SkillContents \cup {"doc2"}, mt \in MTimes : WriteFile("a", "skill", c, mt)
  \/ DeleteFile("a", "skill")

SpecFile == Init /\ [][NextFile]_vars

NextValidator == \E d \in ToolDirs \cup {MissingDir} : ValidateTool(d)

SpecValidator == Init /\ [][NextValidator]_vars

NextRetry ==
  \E n \in 0..MaxRetries : \E ds \in [1..n -> RetryDirs] : ValidateWithRetry(n, ds)

SpecRetry == Init /\ [][NextRetry]_vars

NextDetector ==
  \/ \E intent \in Intents : NewRequest(intent)
  \/ \E tool \in ToolsFor(det.intent) : AddAvailableTool(tool)
  \/ DetectGap

SpecDetector == Init /\ [][NextDetector]_vars

NextGenerator ==
  \/ \E n \in Names, outcome \in GenOutcomes : CreateTool(n, outcome)
  \/ \E n \in Names, s \in SkillContents \cup {""}, m \in MetaContents \cup {""},
        i \in ImplContents \cup {""} : WriteTool(n, s, m, i)
  \/ \E n \in Names : RemoveTool(n)
  \/ RemoveRoot

SpecGenerator == Init /\ [][NextGenerator]_vars

NextRequirements ==
  \/ \E intent \in DerivedIntents, gap_type \in Classified :
       DeriveRequirements(intent, gap_type)
  \/ ForgetRequirements

SpecRequirements == Init /\ [][NextRequirements]_vars

NextService ==
  \/ \E text \in Texts, normalize, use_cache \in BOOLEAN : Embed(text, normalize, use_cache)
  \/ \E texts \in Batches, normalize \in BOOLEAN : EmbedBatch(texts, normalize)
  \/ ClearCache

SpecService == Init /\ [][NextService]_vars

NextEmbedder ==
  \/ NewLocalEmbedder
  \/ \E texts \in TextLists, raises \in BOOLEAN : EmbedTexts(texts, raises)

SpecEmbedder == Init /\ [][NextEmbedder]_vars

NextConsensus ==
  \/ \E calibration \in Calibrations : NewEngine(calibration)
  \/ \E vote \in AgentVotes : AddVote(vote.decision, vote.confidence)
  \/ CollectVotes

SpecConsensus == Init /\ [][NextConsensus]_vars

NextCli ==
  \/ \E argv \in Argvs :
       /\ Lower(argv.command) \notin {"create", "validate"} \/ argv.arg = None
       /\ Main(argv, NoInputs, MissingDir)
  \/ \E arg \in LoaderNames, i \in CreateInputs :
       Main([command |-> "create", arg |-> arg], i, MissingDir)
  \/ \E arg \in LoaderNames, d \in RetryDirs :
       Main([command |-> "validate", arg |-> arg], NoInputs, d)
  \/ \E n \in LoaderNames, s \in SkillContents \cup {""}, m \in MetaContents \cup {""},
        i \in ImplContents \cup {""} : WriteTool(n, s, m, i)
  \/ \E n \in Names : RemoveTool(n)

SpecCli == Init /\ [][NextCli]_vars

(***************************************************************************)
(* Properties of the ToolLoader, checked under SpecLoader.                 *)
(***************************************************************************)
NewEvents == SubSeq(load_log, Len(last.pre.load_log) + 1, Len(load_log))

LoadEvents(events) ==
  SelectSeq(events, LAMBDA e : e.event \in {"load_success", "load_failed"})

LoadedRefs(name) ==
  {i \in 1..Len(tool_versions[name]) : heap[tool_versions[name][i]].status = "loaded"}

\* C1: every tool name has at most one ToolVersion whose status is `loaded`,
\* because a successful load_tool for a name that already has a loaded
\* version first unloads that version.
C1_AtMostOneLoadedVersion ==
  \A n \in Names : Cardinality(LoadedRefs(n)) <= 1

ImportRaised ==
  /\ last.op = "load"
  /\ NewEvents # <<>>
  /\ NewEvents[Len(NewEvents)].reason = "import_error"

\* C2: after a load_tool whose import raised, the call has returned False, a
\* load_failed event has been appended, and the loader reports the tool with
\* status `error` and the error string.
C2_ImportErrorRecorded ==
  ImportRaised =>
    /\ ~last.ret
    /\ NewEvents[Len(NewEvents)].event = "load_failed"
    /\ get_tool_info(LoaderState, last.name).status = "error"
    /\ get_tool_info(LoaderState, last.name).error # None

IsPrefix(s, t) == Len(s) <= Len(t) /\ SubSeq(t, 1, Len(s)) = s

\* C7: every load_tool, unload_tool and load_with_fallback call appends at
\* least one event, and the events logged before the call are kept in place.
C7_EveryCallLogged ==
  last.op \in {"load", "unload", "fallback"} =>
    /\ Len(load_log) > Len(last.pre.load_log)
    /\ IsPrefix(last.pre.load_log, load_log)

\* C27: a load_tool call that returns False leaves loaded_tools, the version
\* lists and the ToolVersion objects as they were before the call, so a
\* version of that name loaded before is still registered and loaded; and
\* every entry of the registry has status `loaded`, none has status `error`.
C27_FailedLoadKeepsRegistry ==
  /\ last.op = "load" /\ ~last.ret =>
       /\ loaded_tools = last.pre.loaded_tools
       /\ tool_versions = last.pre.tool_versions
       /\ heap = last.pre.heap
       /\ \A n \in Names :
            is_tool_loaded(last.pre, n) => is_tool_loaded(LoaderState, n)
  /\ \A n \in Names :
       loaded_tools[n] # 0 => heap[loaded_tools[n]].status = "loaded"
  /\ \A ref \in 1..Len(heap) : heap[ref].status # "error"

\* a load that failed on the import of a tool whose earlier version is loaded
C27_Witness ==
  /\ last.op = "load" /\ ~last.ret
  /\ load_log[Len(load_log)].reason = "import_error"
  /\ is_tool_loaded(LoaderState, last.name)

\* C8: unload_tool(name) returns False and leaves the registry unchanged when
\* name is not loaded; when name is loaded it returns True, name is no longer
\* in the registry, is_tool_loaded(name) is False and the ToolVersion that was
\* loaded has status `unloaded`.
C8_Unload ==
  last.op = "unload" =>
    IF last.pre.loaded_tools[last.name] = 0
    THEN /\ ~last.ret
         /\ loaded_tools = last.pre.loaded_tools
         /\ Registry(LoaderState) = Registry(last.pre)
    ELSE /\ last.ret
         /\ loaded_tools[last.name] = 0
         /\ last.name \notin list_loaded_tools(LoaderState)
         /\ ~is_tool_loaded(LoaderState, last.name)
         /\ heap[last.pre.loaded_tools[last.name]].status = "unloaded"

C8_Witness ==
  /\ last.op = "unload"
  /\ last.pre.loaded_tools[last.name] # 0
  /\ last.ret


IsDescending(s) == \A i, j \in 1..Len(s) : i < j => ~StrLess(s[i], s[j])

PreferredTried == last.version # None /\ last.version \in Range(last.known)

\* the versions load_with_fallback is to try after the preferred one
OtherVersions ==
  IF PreferredTried THEN Range(last.known) \ {last.version} ELSE Range(last.known)

\* C6: load_with_fallback tries the preferred version first when it is a known
\* version, then the other known versions in descending lexical order; it
\* stops at the first load_tool that succeeds and returns True, and returns
\* False only when every known version has been tried and has failed.
C6_FallbackOrder ==
  last.op = "fallback" =>
    LET tried == last.attempts
        rest == IF PreferredTried THEN Tail(tried) ELSE tried
        loads == LoadEvents(NewEvents)
    IN  /\ PreferredTried => (tried # <<>> /\ Head(tried) = last.version)
        /\ IsDescending(rest)
        /\ Range(rest) \subseteq OtherVersions
        /\ Cardinality(Range(rest)) = Len(rest)
        /\ Len(loads) = Len(tried)
        /\ \A i \in 1..Len(loads) :
             /\ loads[i].tool = last.name
             /\ i < Len(loads) => loads[i].event = "load_failed"
        /\ last.ret <=> (loads # <<>> /\ loads[Len(loads)].event = "load_success")
        /\ last.ret => /\ is_tool_loaded(LoaderState, last.name)
                       /\ get_tool_info(LoaderState, last.name).version = tried[Len(tried)]
        /\ ~last.ret => Range(rest) = OtherVersions

C6_Witness ==
  /\ last.op = "fallback"
  /\ last.version # None
  /\ ~PreferredTried
  /\ last.ret
  /\ load_log[Len(load_log)].event = "fallback_success"

\* C9: a successful load, an unload and a re-load (load_tool with the same
\* version argument, or reload_tool) of one tool whose directory is the same
\* at the three calls ends with the tool loaded and the registry as it was
\* after the first load; reload_tool on a loaded tool unloads it and then
\* loads the version that was loaded.
C9_ReloadIdempotent ==
  /\ cycle.stage = 3 =>
       /\ last.ret
       /\ is_tool_loaded(LoaderState, cycle.name)
       /\ Registry(LoaderState) = cycle.reg
  /\ (last.op = "reload" /\ last.pre.loaded_tools[last.name] # 0) =>
       LET ref == last.pre.loaded_tools[last.name]
           version == last.pre.heap[ref].version
       IN  /\ Len(NewEvents) = 2
           /\ NewEvents[1] = Event("unload_success", last.name, None, version, None, None)
           /\ heap[ref].status = "unloaded"
           /\ last.attempts = <<version>>
           /\ NewEvents[2].event \in {"load_success", "load_failed"}
           /\ last.ret <=> NewEvents[2].event = "load_success"
           /\ last.ret => get_tool_info(LoaderState, last.name).version = version

C9_Witness ==
  /\ cycle.stage = 3
  /\ last.op = "reload"
  /\ last.ret

(***************************************************************************)
(* Properties of the CreationLog, checked under SpecLog.                   *)
(***************************************************************************)
RECURSIVE SumOver(_, _)
SumOver(f, keys) ==
  IF keys = {} THEN 0
  ELSE LET k == CHOOSE x \in keys : TRUE
       IN  f[k] + SumOver(f, keys \ {k})

SumValues(f) == SumOver(f, DOMAIN f)

\* C3: on a CreationLog opened on an empty log, after N add_entry calls
\* get_tools() has exactly N entries in append order, the k-th with id
\* tool_00k, and the by_gap_type counts sum to N.
C3_AppendOnly ==
  \A w \in Writers :
    (log_pc[w] = "idle" /\ opened[w].base = 0) =>
      LET tools == get_tools(log_data[w])
          added == opened[w].added
      IN  /\ Len(tools) = Len(added)
          /\ \A k \in 1..Len(tools) :
               /\ tools[k].id = ToolId(k)
               /\ tools[k].capability_gap_type = added[k].capability_gap_type
          /\ \A j, k \in 1..Len(tools) : j # k => tools[j].id # tools[k].id
          /\ SumValues(get_stats(log_data[w]).by_gap_type) = Len(added)

\* two CreationLog instances that loaded the same number of entries and have
\* each completed an add_entry since
Interleaved(w1, w2) ==
  /\ w1 # w2
  /\ log_pc[w1] = "idle" /\ log_pc[w2] = "idle"
  /\ opened[w1].base = opened[w2].base
  /\ opened[w1].added # <<>> /\ opened[w2].added # <<>>

FewerThanReturned == Len(log_file.data.tools) < Len(returned)

SameIdReturned ==
  \E i, j \in 1..Len(returned) : i # j /\ returned[i].id = returned[j].id

\* C4: when two CreationLog instances opened on the same file state have each
\* completed an add_entry, an update is lost: the file holds fewer entries
\* than add_entry calls returned, and two returned ids are equal.
C4_LostUpdate ==
  \A w1, w2 \in Writers :
    Interleaved(w1, w2) => (FewerThanReturned /\ SameIdReturned)

C4_Witness ==
  /\ \E w1, w2 \in Writers : Interleaved(w1, w2)
  /\ FewerThanReturned
  /\ SameIdReturned

(***************************************************************************)
(* Properties of create_tool_on_demand, checked under SpecOrch.            *)
(***************************************************************************)
Declined == run.approved = "n"
GenerationFailed == run.generation = "False"
ValidationAborted == run.validation = "False" /\ run.continued = "n"
HotReloadFailed == run.hotreload = "False"

LastCall == run.calls[Len(run.calls)]

\* C5: create_tool_on_demand always returns a result and never raises; when
\* a step fails (creation declined, generation failed, validation failed
\* and not continued, hot-reload load failed) no later step runs, no log
\* entry is appended and the result has success = False.
C5_FailureShortCircuits ==
  run.finished =>
    /\ ~run.raised
    /\ (Declined \/ GenerationFailed \/ ValidationAborted \/ HotReloadFailed) =>
         /\ ~run.success
         /\ ~InSeq("add_entry", run.calls)
    /\ Declined => LastCall = "input" /\ run.generation = None
    /\ GenerationFailed => LastCall = "create_tool" /\ run.validation = None
    /\ ValidationAborted => LastCall = "input" /\ run.attempts = 0
    /\ HotReloadFailed => LastCall = "load_tool"

\* C22: a create_tool_on_demand call in which a gap is detected, auto_approve
\* is false and the user declines at the creation prompt returns success
\* False after list_available_tools, detect_gap and the prompt only, and
\* leaves the tools directories, the loader registry and the creation log as
\* they were; and no call invokes the Generator unless detect_gap, called
\* before it, has reported a gap.
C22_DeclinedLeavesNoTrace ==
  /\ [](InSeq("create_tool", run.calls) =>
          /\ run.gap = "True"
          /\ SubSeq(run.calls, 1, 2) = <<"list_available_tools", "detect_gap">>)
  /\ [][(run' # run /\ run'.finished /\ run'.approved = "n") =>
          /\ ~ run'.success
          /\ run'.gap = "True" /\ ~ run'.auto
          /\ run'.calls = <<"list_available_tools", "detect_gap", "input">>
          /\ fs' = fs /\ root_exists' = root_exists /\ other_fs' = other_fs
          /\ loaded_tools' = loaded_tools /\ tool_versions' = tool_versions
          /\ heap' = heap
          /\ log_file' = log_file /\ log_data' = log_data]_vars

\* a call declined at the creation prompt, made when the tools root holds a tool
C22_Witness ==
  /\ run.finished
  /\ run.approved = "n"
  /\ run.gap = "True"
  /\ ~ run.success
  /\ \E n \in Names : fs[n].dir

\* C25: once the hot-reload step is entered the call returns; each pass of
\* the loop makes one load_tool call, at most LoadAttempts are made, the
\* loop ends at the first that returns True, and it is followed by exactly
\* one add_entry whose hotreload_success says whether a load succeeded and
\* whose validation_passed is the validator's all_passed.
C25_HotReloadTerminates ==
  /\ (orch_pc = "hotreload") ~> (orch_pc = "idle" /\ run.finished)
  /\ [](orch_pc = "hotreload" => run.attempts < LoadAttempts /\ ~run.finished)
  /\ [][orch_pc = "hotreload" /\ run' # run =>
          /\ run'.attempts = run.attempts + 1
          /\ last'.op = "load" /\ last'.name = run.name
          /\ run'.finished <=> (last'.ret \/ run'.attempts = LoadAttempts)
          /\ ~run'.finished =>
               /\ run'.calls = Append(run.calls, "load_tool")
               /\ opened' = opened /\ log_data' = log_data /\ log_file' = log_file
          /\ run'.finished =>
               /\ run'.calls = run.calls \o <<"load_tool", "add_entry">>
               /\ run'.hotreload = BoolStr(last'.ret)
               /\ opened'[OrchLog].added =
                    Append(opened[OrchLog].added,
                           [CreatedInfo(run, last'.ret)
                              EXCEPT !.hotreload_success = BoolStr(last'.ret),
                                     !.validation_passed = run.validation])
               /\ Len(log_data'[OrchLog].tools) = Len(log_data[OrchLog].tools) + 1
               /\ LET e == log_data'[OrchLog].tools[Len(log_data'[OrchLog].tools)]
                  IN  /\ e.hotreload_success = BoolStr(last'.ret)
                      /\ e.validation_passed = run.validation]_vars

\* a run whose third load_tool call was the first to return True, logged
C25_Witness ==
  /\ run.finished /\ run.attempts = 3 /\ run.hotreload = "True"
  /\ run.validation = "False"
  /\ run.calls[Len(run.calls)] = "add_entry"

\* the tools directory the orchestrator was constructed with
UnderRoot == IF orch_root = "skills" THEN fs ELSE other_fs

\* a pass of the hot-reload loop made while the generated tool is in the
\* orchestrator's tools directory
PassWithToolPresent ==
  /\ orch_pc = "hotreload" /\ run' # run
  /\ UnderRoot[run.name].dir
  /\ orch_root = "skills" => root_exists

\* C28: an orchestrator constructed with tools root R uses R in all its
\* steps: with the generated tool present under R, the load_tool call of the
\* hot-reload step finds it and succeeds, and the log entry has
\* hotreload_success true.
C28_SameRoot ==
  [][PassWithToolPresent =>
       /\ last'.ret
       /\ run'.finished /\ run'.hotreload = "True"
       /\ log_data'[OrchLog].tools[Len(log_data'[OrchLog].tools)].hotreload_success
            = "True"]_vars

\* the same for the orchestrators constructed with the default root
DefaultRootHotReload ==
  [][PassWithToolPresent /\ orch_root = "skills" =>
       /\ last'.ret
       /\ run'.finished /\ run'.hotreload = "True"]_vars

\* with another root every pass fails, whatever is in that directory
OtherRootHotReload ==
  [][orch_pc = "hotreload" /\ run' # run /\ orch_root # "skills"
       /\ ~ fs[run.name].dir => ~ last'.ret]_vars

(***************************************************************************)
(* ToolWatcher properties.                                                 *)
(***************************************************************************)
\* how many times the last scan invoked callback i of the event for the tool
Invocations(event, tool, i) ==
  Cardinality({k \in 1..Len(chk.fired) :
                 /\ chk.fired[k].event = event
                 /\ chk.fired[k].tool = tool
                 /\ chk.fired[k].cb = i})

\* the directories that the last check() found and the scan before it did not
Appeared == chk.cur \ chk.prev

\* C10: after a check(), every directory under the tools root that was not
\* there at the scan before has had each registered tool_added callback invoked
\* exactly once by this check() and is listed in get_watched_tools(); a
\* directory that was already there at the scan before is not announced again.
C10_ToolAddedOnce ==
  (watch_on /\ chk.n > 0) =>
    /\ \A n \in Appeared :
         /\ \A i \in 1..Len(chk.cbs["tool_added"]) :
              Invocations("tool_added", n, i) = 1
         /\ n \in Range(get_watched_tools(WatcherState))
    /\ \A n \in chk.cur \cap chk.prev :
         \A i \in 1..Len(chk.cbs["tool_added"]) :
           Invocations("tool_added", n, i) = 0


\* C11: after a check(), every directory that the scan before found and this
\* check() did not has had each registered tool_removed callback invoked
\* exactly once and is no longer listed in get_watched_tools(); every
\* tool_removed invocation precedes every tool_updated invocation; and no
\* removal is announced a second time for a tool that no scan has found since
\* its removal was announced.
Disappeared == chk.prev \ chk.cur

C11_ToolRemovedOnce ==
  (watch_on /\ chk.n > 0) =>
    /\ \A n \in Disappeared :
         /\ \A i \in 1..Len(chk.cbs["tool_removed"]) :
              Invocations("tool_removed", n, i) = 1
         /\ n \notin Range(get_watched_tools(WatcherState))
    /\ \A j, k \in 1..Len(chk.fired) :
         (chk.fired[j].event = "tool_updated" /\ chk.fired[k].event = "tool_removed")
           => k < j
    /\ chk.again = {}

\* how many tool_updated events for the file check() returned, and how many
\* times it invoked callback i for the file
Reports(n, f) ==
  Cardinality({k \in 1..Len(chk.changes) :
                 chk.changes[k].tool = n /\ chk.changes[k].file = FileName(f)})

UpdatedInvocations(n, f, i) ==
  Cardinality({k \in 1..Len(chk.fired) :
                 chk.fired[k] = Invocation("tool_updated", n, FileName(f), i)})

\* C12: after a check(), a file of a tool known at the scan before whose
\* content was changed since that scan is reported by exactly one tool_updated
\* event in the returned list and one invocation of every tool_updated
\* callback, and a file whose content is what it was at the scan before is not
\* reported at all.
C12_UpdatedOnce ==
  (watch_on /\ chk.n > 0) =>
    \A n \in Names, f \in Range(WatchedFiles) :
      /\ (n \in chk.prev \cap chk.cur /\ <<n, f>> \in chk.edited) =>
           /\ Reports(n, f) = 1
           /\ \A i \in 1..Len(chk.cbs["tool_updated"]) :
                UpdatedInvocations(n, f, i) = 1
      /\ <<n, f>> \notin chk.differ =>
           /\ Reports(n, f) = 0
           /\ \A i \in 1..Len(chk.cbs["tool_updated"]) :
                UpdatedInvocations(n, f, i) = 0

\* C14: no exception leaves check(); it invokes the callbacks, and leaves the
\* watched tools, their file watchers, the known tools and the returned list,
\* exactly as it would have had no callback raised.
C14_CallbackExceptionsCaught ==
  (watch_on /\ chk.n > 0) =>
    /\ ~chk.exc
    /\ chk.fired = chk.quiet.fired
    /\ \A k \in 1..Len(chk.fired) :
         \A i \in 1..Len(chk.cbs[chk.fired[k].event]) :
           \E j \in 1..Len(chk.fired) : chk.fired[j] = [chk.fired[k] EXCEPT !.cb = i]
    /\ watchers = chk.quiet.watchers
    /\ known_tools = chk.quiet.known_tools
    /\ chk.changes = chk.quiet.changes

\* a callback that raised was followed by another for the same event
RaisedThenInvoked(e) ==
  \E k \in 1..Len(chk.fired) :
    /\ chk.fired[k].event = e
    /\ chk.cbs[e][chk.fired[k].cb] = "raises"
    /\ chk.fired[k].cb < Len(chk.cbs[e])

C14_Witness ==
  /\ watch_on /\ chk.n > 0
  /\ \E e \in Events : RaisedThenInvoked(e)
  /\ known_tools # {}


(***************************************************************************)
(* FileWatcher properties.                                                 *)
(***************************************************************************)
\* C13: a has_changed() call returns False when the file's content is what it
\* was at construction or at the last call that returned True, and returns
\* True when the content (none for a deleted file) is not what it was at the
\* call before.
C13_HasChangedOnce ==
  (fwatch.on /\ hc.n > 0) =>
    /\ hc.now = hc.since => ~hc.ret
    /\ hc.now # hc.prev => hc.ret


(***************************************************************************)
(* ToolValidator properties.                                               *)
(***************************************************************************)
Ran(r, p) == r.validations[p] # "skipped"

\* C15: validate_tool on an existing tool directory returns a result in which
\* the structure, documentation and metadata phases ran, the syntax phase ran
\* iff implementation.py exists, the tests phase ran iff tests.py exists, and
\* all_passed is true iff every phase that ran passed; on a missing directory
\* it returns all_passed false; it never raises.
C15_ValidatePhases ==
  val.called =>
    /\ ~val.res.raised
    /\ val.d.exists =>
         /\ Ran(val.res, "structure")
         /\ Ran(val.res, "documentation")
         /\ Ran(val.res, "metadata")
         /\ Ran(val.res, "syntax") <=> val.d.impl # "absent"
         /\ Ran(val.res, "tests") <=> val.d.tests # "absent"
         /\ val.res.all_passed <=>
              \A p \in Phases : Ran(val.res, p) => val.res.validations[p] = "passed"
    /\ ~val.d.exists => ~val.res.all_passed

\* the first run of the call that passed, or 0
FirstPass ==
  IF \E k \in 1..rty.max_retries : validate_tool(rty.ds[k]).all_passed
  THEN CHOOSE k \in 1..rty.max_retries :
         /\ validate_tool(rty.ds[k]).all_passed
         /\ \A j \in 1..(k - 1) : ~validate_tool(rty.ds[j]).all_passed
  ELSE 0

\* C16: validate_with_retry(name, max_retries = N) returns for every N >= 0
\* after at most N validate_tool runs: at the first run that passes, with
\* attempts the number of runs made; otherwise with the last run's result,
\* attempts = N and all_retries_failed true; it waits once between two
\* consecutive runs and not after the last.
C16_RetryBounded ==
  rty.called =>
    /\ ~rty.res.raised
    /\ rty.res.runs <= rty.max_retries
    /\ rty.res.sleeps = IF rty.res.runs = 0 THEN 0 ELSE rty.res.runs - 1
    /\ FirstPass # 0 =>
         /\ rty.res.runs = FirstPass
         /\ rty.res.attempts = FirstPass
         /\ rty.res.all_passed
         /\ ~rty.res.all_retries_failed
    /\ FirstPass = 0 =>
         /\ rty.res.runs = rty.max_retries
         /\ rty.res.last = rty.max_retries
         /\ rty.res.attempts = rty.max_retries
         /\ ~rty.res.all_passed
         /\ rty.res.all_retries_failed


(***************************************************************************)
(* CreationLog statistics.                                                 *)
(***************************************************************************)
CountOf(values, v) == Cardinality({i \in 1..Len(values) : values[i] = v})

SameQuotient(q, num, den) == q.num * den = num * q.den

\* the statistics block is the one recomputed from the entry list
StatisticsMatch(data) ==
  LET tools == get_tools(data)
      stats == get_stats(data)
      n == Len(tools)
  IN  /\ \A g \in DOMAIN stats.by_gap_type :
           stats.by_gap_type[g] = CountOf([i \in 1..n |-> GapOf(tools[i])], g)
      /\ \A i \in 1..n : GapOf(tools[i]) \in DOMAIN stats.by_gap_type
      /\ SameQuotient(stats.average_complexity,
                      Sum([i \in 1..n |-> ScoreOf(tools[i])]), IF n = 0 THEN 1 ELSE n)
      /\ SameQuotient(stats.validation_pass_rate,
                      CountOf([i \in 1..n |-> tools[i].validation_passed], "True"),
                      IF n = 0 THEN 1 ELSE n)
      /\ SameQuotient(stats.hotreload_success_rate,
                      CountOf([i \in 1..n |-> tools[i].hotreload_success], "True"),
                      IF n = 0 THEN 1 ELSE n)

\* C17: in every state of a constructed CreationLog, whether it was built from
\* no file or from an existing one, and after every add_entry,
\* total_tools_created is the number of entries and the statistics block
\* (by_gap_type, average_complexity, validation_pass_rate,
\* hotreload_success_rate) is the one recomputed from the entry list.
C17_StatisticsRecomputed ==
  \A w \in Writers :
    log_pc[w] # "closed" =>
      /\ log_data[w].total_tools_created = Len(get_tools(log_data[w]))
      /\ StatisticsMatch(log_data[w])

C17_Witness ==
  \E w \in Writers :
    /\ log_pc[w] = "idle"
    /\ opened[w].base > 0
    /\ opened[w].added # <<>>
    /\ get_stats(log_data[w]).validation_pass_rate.num > 0
    /\ get_stats(log_data[w]).validation_pass_rate.num < Len(get_tools(log_data[w]))
    /\ Cardinality(DOMAIN get_stats(log_data[w]).by_gap_type) > 1


(***************************************************************************)
(* CapabilityDetector                                                      *)
(***************************************************************************)
\* the scores of the available tools that are candidates, and the best of them
CandidateScores == {match_score(det.tools[i]) : i \in {j \in 1..Len(det.tools) :
                       FloatGreater(match_score(det.tools[j]), Float(0))}}
BestScore == CHOOSE s \in CandidateScores : \A t \in CandidateScores : ~ FloatGreater(t, s)

\* C18: a detect_gap call reports no gap exactly when there is a candidate
\* and the best match score is above 0.85; otherwise its gap type is
\* domain-gap when there is no candidate or the best score is below 0.3, else
\* integration-gap when the intent has at least 2 entities and the best score
\* is below 0.5, else complexity-gap when the best score is above 0.5, else
\* (a best score of exactly 0.5 included) format-gap.
C18_GapDecisionTree ==
  det.called =>
    LET none == CandidateScores = {}
        nogap == ~ none /\ FloatGreater(BestScore, Float(85))
    IN  /\ det.res.gap_detected = ~ nogap
        /\ ~ nogap =>
             det.res.gap_type =
               IF none \/ FloatLess(BestScore, Float(30)) THEN "domain-gap"
               ELSE IF det.intent.entities >= 2 /\ FloatLess(BestScore, Float(50))
                    THEN "integration-gap"
               ELSE IF FloatGreater(BestScore, Float(50)) THEN "complexity-gap"
               ELSE "format-gap"

\* a call whose best score is exactly 0.5, with two entities in the intent
C18_Witness ==
  /\ det.called
  /\ det.intent.entities >= 2
  /\ CandidateScores # {}
  /\ BestScore = Float(50)
  /\ det.res.gap_type = "format-gap"

ZeroOverlap(tool) ==
  ~ tool.category /\ ~ tool.action /\ tool.entities = 0 /\ tool.keywords = 0

\* C19: when no available tool name contains the intent's category, its
\* action, one of its entities or one of its keywords (an empty tool list
\* included), find_matching_tools returns no candidate and detect_gap returns
\* gap_detected true, gap type domain-gap and confidence 0.95.
C19_NoOverlapDomainGap ==
  (det.called /\ \A i \in 1..Len(det.tools) : ZeroOverlap(det.tools[i])) =>
    /\ det.matches = <<>>
    /\ det.res = [gap_detected |-> TRUE, gap_type |-> "domain-gap", confidence |-> <<95>>]

\* a call with available tools, none of which overlaps the intent
C19_Witness ==
  /\ det.called
  /\ det.tools # <<>>
  /\ \A i \in 1..Len(det.tools) : ZeroOverlap(det.tools[i])
  /\ det.intent.entities >= 2
  /\ det.res.confidence = <<95>>

(***************************************************************************)
(* cli.py                                                                  *)
(***************************************************************************)
\* C20: a run of cli.py exits with code 0 exactly when it ran a command whose
\* operation reported success (load, unload, reload returned True, info found
\* the tool, validate had all_passed, create_tool_on_demand returned success
\* True, list, detect, stats completed), and with code 1 otherwise: missing
\* arguments, an unknown command or a reported failure.
C20_ExitCode ==
  cli.ran =>
    /\ cli.code \in {0, 1}
    /\ cli.code = 0 <=> (cli.invoked /\ cli.reported)

(***************************************************************************)
(* ToolGenerator                                                           *)
(***************************************************************************)
\* C21: a create_tool call never raises; when creating the directory or
\* writing one of the four files fails it returns False, the directory and
\* the files written before the failure are on disk after the call, and a
\* call on a directory that existed before succeeds like any other.
C21_CreateToolNeverRaises ==
  tgen.called =>
    /\ tgen.ret \in {"True", "False"}
    /\ tgen.ret = "True" <=> tgen.outcome = "ok"
    /\ tgen.outcome # "mkdir_raises" => tgen.after.dir
    /\ "SKILL.md" \in Range(tgen.written) => tgen.after.skill = GeneratedSkill
    /\ "metadata.json" \in Range(tgen.written) => tgen.after.meta = GeneratedMeta
    /\ tgen.before.dir => tgen.after.impl = tgen.before.impl

(***************************************************************************)
(* LocalEmbeddingService                                                   *)
(***************************************************************************)
\* C23: every embed and embed_batch call returns, for each of its texts, the
\* vector the model computes for that text and the call's normalize flag,
\* whatever the cache holds; a result asked with normalize = True has unit
\* length, and a call repeated with the same arguments returns what the first
\* returned.
C23_CacheTransparent ==
  emb.called =>
    /\ \A i \in 1..Len(emb.texts) :
         /\ emb.embeddings[i] = encode(emb.texts[i], emb.normalize)
         /\ emb.normalize => emb.embeddings[i].norm = 1
    /\ emb.first # <<>> => emb.embeddings = emb.first

(***************************************************************************)
(* Requirements properties.                                                *)
(***************************************************************************)
\* C26: for every intent and gap type the requirements have core_functions
\* equal to <action>_<entity lower-cased> for each entity in order, at most
\* five of them, or to [<action>_data, process_<category>] when the intent has
\* no entities; and dependencies equal to the first three entities.
C26_Requirements ==
  dreq.called =>
    LET intent == dreq.intent
        n == Len(intent.entities)
    IN  /\ dreq.requirements.core_functions =
             IF n > 0
             THEN [i \in 1..Min(5, n) |->
                     <<intent.action, "_", entity_lower(intent.entities[i])>>]
             ELSE << <<intent.action, "_", "data">>, <<"process", "_", intent.category>> >>
        /\ Len(dreq.requirements.core_functions) <= 5
        /\ dreq.requirements.dependencies = SubSeq(intent.entities, 1, Min(3, n))

\* the same for the format gaps
FormatGapRequirements == dreq.gap_type = "format-gap" => C26_Requirements

\* for the other gaps validate_input follows the functions the claim lists
OtherGapRequirements ==
  dreq.called /\ dreq.gap_type # "format-gap" =>
    /\ dreq.requirements.core_functions =
         Append(named_functions(dreq.intent), <<"validate_input">>)
    /\ Len(dreq.requirements.core_functions) <= 6

(***************************************************************************)
(* LocalEmbedder properties.                                               *)
(***************************************************************************)
\* C29: embed(texts) with caching enabled returns at every position i the
\* embedding of texts[i], for any list of distinct texts and whatever part
\* of them earlier embed calls have cached.
C29_EmbedInOrder ==
  lemb.called =>
    /\ ~ lemb.raised
    /\ Len(lemb.embeddings) = Len(lemb.texts)
    /\ \A i \in 1..Len(lemb.texts) : lemb.embeddings[i] = model_encode(lemb.texts[i])

\* the texts of the last call whose key was in the cache when it was made
WereCached == {i \in 1..Len(lemb.texts) : lemb.before[cache_key(lemb.texts[i])] # Unset}

\* the cache holds under every key the embedding of a text with that key
\* and no two texts of the call share their first 50 characters
KeysTellTextsApart ==
  /\ \A i \in WereCached :
       lemb.before[cache_key(lemb.texts[i])] = model_encode(lemb.texts[i])
  /\ \A i, j \in 1..Len(lemb.texts) :
       cache_key(lemb.texts[i]) = cache_key(lemb.texts[j]) => i = j

\* the calls in which the cached texts come before all the others are
\* answered in order when the keys tell the texts apart
CachedFirstInOrder ==
  (/\ lemb.called /\ KeysTellTextsApart
   /\ \A i \in WereCached : \A j \in 1..i : j \in WereCached) =>
    C29_EmbedInOrder

(***************************************************************************)
(* ConsensusEngine properties.  Sums and products are those of floats,     *)
(* taken in the order of the votes.                                        *)
(***************************************************************************)
\* the votes and the factor of the last collect_votes call
Given == Votes(cons.votes)
Factor == FloatOf[cons.calibration]

\* the sum over the votes of decision * confidence * factor
ProductSum ==
  FSum([i \in 1..Len(Given) |->
          weight(Vote(Given[i].decision, FMul(Given[i].confidence, Factor)))])

\* the same sum with every product above 1.0 replaced by 1.0
CappedSum ==
  FSum([i \in 1..Len(Given) |->
          weight(Vote(Given[i].decision,
                      FMin(One, FMul(Given[i].confidence, Factor))))])

\* the result has the score and the decision is its sign
DecidedBy(score) ==
  /\ cons.result.weighted_score = score
  /\ cons.result.final_decision = "YES" <=> FSign(score) > 0
  /\ cons.result.final_decision = "NO" <=> FSign(score) < 0
  /\ cons.result.final_decision = "ABSTAIN" <=> FSign(score) = 0

\* collect_votes multiplies every confidence by the calibration factor and
\* decides by the sign of the sum of decision * confidence * factor, which
\* is the weighted_score; an empty list raises ValueError
ProductDecides ==
  cons.called =>
    /\ cons.raised <=> cons.votes = <<>>
    /\ ~ cons.raised => DecidedBy(ProductSum)

\* with a factor of at most 1 no product is above 1.0 and the products decide
DiscountDecides == cons.calibration <= 10 => ProductDecides

\* C24: collect_votes multiplies every confidence by the calibration factor
\* and replaces a product above 1.0 by 1.0; final_decision is YES, NO or
\* ABSTAIN as the sum of decision * that confidence is above, below or
\* exactly 0, weighted_score is that sum, and an empty list raises ValueError.
C24_CappedProductDecides ==
  cons.called =>
    /\ cons.raised <=> cons.votes = <<>>
    /\ ~ cons.raised => DecidedBy(CappedSum)

\* a call with a product above 1.0 that changes the decision: with factor 2.0
\* a YES of 0.6 against NOs of 0.3 and 0.2 is 1.2 - 0.6 - 0.4, above 0, and
\* the engine abstains on 1.0 - 0.6 - 0.4
C24_Witness ==
  /\ cons.called /\ ~ cons.raised
  /\ \E i \in 1..Len(Given) : FLess(One, FMul(Given[i].confidence, Factor))
  /\ cons.result.final_decision # decide_from_score(ProductSum)

\* C30: for a non-empty list of votes with confidences in [0, 1] and a
\* calibration factor c with 0 < c <= 1, collect_votes gives the
\* final_decision and the confidence_level it gives with factor 1.
C30_CalibrationInvariant ==
  (/\ cons.called /\ cons.votes # <<>>
   /\ cons.calibration > 0 /\ cons.calibration <= 10
   /\ \A i \in 1..Len(cons.votes) : cons.votes[i].confidence \in 0..10) =>
    LET plain == collect_votes(Given, One)[1]
    IN  /\ ~ cons.raised
        /\ cons.result.final_decision = plain.final_decision
        /\ cons.result.confidence_level = plain.confidence_level

====
